---- MODULE Spec2Model ----
(***************************************************************************)
(* Miyori cognitive memory subsystem: episodic store, embedding queue,     *)
(* budget sweep, consolidation run and the prefetch cache.                 *)
(*                                                                         *)
(* Reals are fixed point: similarities, importances and ranks are integers *)
(* at scale Scale (1.0 = Scale); stored importance is in hundredths.       *)
(* Embeddings are short integer vectors; None is the empty sequence.       *)
(***************************************************************************)
EXTENDS Integers, Sequences, FiniteSets, TLC

\* ---------------------------------------------------------------- bounds
MaxEpisodes == 3        \* rows ever inserted into episodic_memory
MaxConsEpisodes == 2    \* the same, in runs that interleave a consolidation
MaxTicks == 1           \* how many times the clock advances
DayStep == 40           \* days added by one clock advance
MaxK == 2               \* largest limit passed to retrieve_relevant
MaxTurns == 4           \* add_turn_context calls
MaxRefresh == 3         \* completed cache refreshes
MaxToolLines == 2       \* lines of a short tool result text
MaxItems == 2           \* episodic memories, and facts, given to build_context
ManyShort == 40         \* lines of the long tool result made of 2-character lines
MaxBatchEpisodes == 3    \* episodes handed to create_consolidation_batches
MaxSampleRows == 4     \* rows handed to diversity_sample
MaxSampleLimit == 2    \* largest limit passed to diversity_sample
MaxHistory == 5        \* messages ChatHistory holds before the next add is left out
MaxRequests == 3       \* inputs the server receives
MaxRuns == 2           \* LLMCoordinator.run calls
MaxCalls == 4          \* provider calls of one behaviour
ManyMedium == 12        \* lines of the long tool result made of 6-character lines

\* ------------------------------------------- program constants (scaled)
max_active == 1         \* budget.py:9   max_episodic_active, 1000 in the source
FetchMargin == 1        \* budget.py:24  limit = max_active + 100
check_frequency == 2    \* budget.py:10  50 in the source
EmbDim == 2             \* embeddings.py:25  768 in the source
max_cluster_size == 2   \* consolidation.py:12  50 in the source
min_cluster_size == 2   \* consolidation.py:13  3 in the source
max_recent_turns == 3   \* async_memory_stream.py:64
max_cache_turns == 2    \* async_memory_stream.py:49  5 in the source
MAX_HISTORY_TOKENS == 12   \* ChatHistory.max_tokens
TRIM_CHUNK_SIZE == 4       \* ChatHistory.trim_chunk_size
max_tool_turns == 2        \* LLMCoordinator.max_tool_turns
max_iterations == 2        \* AgenticState.max_iterations
Scale == 10000          \* fixed-point unit
Ln2 == 6931             \* math.log(2) at Scale

Null == << >>
ZeroVec == <<0, 0>>
EmbedVecs == {<<3, 4>>}
QueryVecs == EmbedVecs \cup {ZeroVec}
Importances == {50, 80}
Labels == {-1, 0, 1}
FactCounts == {0, 1}     \* facts the generator returns for one batch

VARIABLES
    rows,           \* episodic_memory table, in rowid order; the index is the id
    facts,          \* semantic_memory table
    queue,          \* EmbeddingQueue.queue: ids waiting for an embedding
    processing,     \* EmbeddingQueue.processing
    created,        \* _process_queue tasks created and not yet started
    inflight,       \* ids whose embed call a started worker is awaiting
    embedCalls,     \* per id, how many times embed was requested for it
    embedFailed,    \* ids for which the generator's embed call failed
    addCount,       \* MemoryBudget.add_count
    now,            \* datetime.now(), in days
    cons,           \* the perform_consolidation coroutine
    recent_turns,   \* AsyncMemoryStream._recent_turns (turn numbers)
    turnCount,      \* add_turn_context calls so far
    cache,          \* AsyncMemoryStream._cache
    refreshTasks,   \* _refresh_cache tasks created by add_turn_context
    refreshSeq,     \* completed refreshes so far
    running,        \* AsyncMemoryStream._running
    ctx,            \* the last build_context call: its arguments and what it built
    tool_output,    \* text search_memory returned during the current turn
    in_turn,        \* LLMCoordinator.run has started a turn
    call,           \* the last call of a stateless function: arguments and result
    reader,         \* a foreground get_cached_memories call
    backend,        \* GoogleAIBackend after __init__: client, memory_enabled, flags
    co,             \* the LLMCoordinator.run call in progress
    agentic,        \* the AgenticState shared by run and the tools
    interrupt,      \* StateManager._interrupt_flag
    log,            \* what happened so far, as <<turn, event>> pairs
    stores,         \* per turn, where its _store_turn coroutine stands
    messages,       \* ChatHistory.messages
    srv             \* the server: StateManager._state and the requests

storeVars == <<rows, facts, queue, processing, created, inflight, embedCalls, embedFailed,
               addCount, now, cons>>
streamVars == <<recent_turns, turnCount, cache, refreshTasks, refreshSeq, running,
                reader>>
ctxVars == <<ctx, tool_output, in_turn>>
turnVars == <<backend, co, agentic, interrupt, log, stores>>
appVars == <<backend, co, agentic, interrupt, log, stores, messages, srv>>
vars == <<rows, facts, queue, processing, created, inflight, embedCalls, embedFailed,
          addCount, now, cons, recent_turns, turnCount, cache, refreshTasks,
          refreshSeq, running, reader, ctx, tool_output, in_turn, call,
          backend, co, agentic, interrupt, log, stores, messages, srv>>

\* ------------------------------------------------------------- helpers
Ids == 1..Len(rows)

RECURSIVE SumSeq(_)
SumSeq(s) == IF s = << >> THEN 0 ELSE Head(s) + SumSeq(Tail(s))

Take(s, n) == SubSeq(s, 1, IF n < Len(s) THEN n ELSE Len(s))
Drop(s, n) == SubSeq(s, n + 1, Len(s))

RECURSIVE ISqrtFrom(_, _)
ISqrtFrom(n, r) == IF (r + 1) * (r + 1) > n THEN r ELSE ISqrtFrom(n, r + 1)
ISqrt(n) == ISqrtFrom(n, 0)

Dot(a, b) == SumSeq([i \in 1..(IF Len(a) < Len(b) THEN Len(a) ELSE Len(b)) |-> a[i] * b[i]])
Norm(a) == ISqrt(Dot(a, a))

\* sqlite_store.search_episodes: cosine similarity, 0 for a zero norm
Cosine(q, m) ==
    IF Norm(m) = 0 \/ Norm(q) = 0 THEN 0
    ELSE (Dot(q, m) * Scale) \div (Norm(q) * Norm(m))

\* list.sort(key=..., reverse=True): stable, descending
SortDesc(s, key(_)) ==
    LET RECURSIVE Ins(_, _)
        Ins(sorted, x) ==
            IF sorted = << >> THEN <<x>>
            ELSE IF key(Head(sorted)) >= key(x)
                 THEN <<Head(sorted)>> \o Ins(Tail(sorted), x)
                 ELSE <<x>> \o sorted
        RECURSIVE Srt(_)
        Srt(u) ==
            IF u = << >> THEN << >>
            ELSE Ins(Srt(SubSeq(u, 1, Len(u) - 1)), u[Len(u)])
    IN  Srt(s)

FilterSeq(s, keep(_)) ==
    LET RECURSIVE Flt(_)
        Flt(u) ==
            IF u = << >> THEN << >>
            ELSE (IF keep(Head(u)) THEN <<Head(u)>> ELSE << >>) \o Flt(Tail(u))
    IN  Flt(s)

Range(s) == {s[i] : i \in 1..Len(s)}

\* ------------------------------------------------------------- scoring
\* e^(-t) for t in [0, Ln2], by Horner's scheme on the Taylor series
RECURSIVE ExpNegHorner(_, _)
ExpNegHorner(t, n) ==
    IF n > 7 THEN Scale
    ELSE Scale - ((t * ExpNegHorner(t, n + 1)) \div (n * Scale))

RECURSIVE Pow2(_)
Pow2(n) == IF n <= 0 THEN 1 ELSE 2 * Pow2(n - 1)

\* a decay that starts again at every half-life
DecayFactorPeriodic(age, half_life) ==
    ExpNegHorner(((age % half_life) * Ln2) \div half_life, 1)

\* math.exp(-age_days * math.log(2) / half_life) = 2^(-age/half_life)
DecayFactor(age, half_life) ==
    LET q == age \div half_life
        r == age % half_life
    IN  IF q > 20 THEN 0
        ELSE ExpNegHorner((r * Ln2) \div half_life, 1) \div Pow2(q)

AgeDays(timestamp, t) == t - timestamp

\* ImportanceScorer.get_decayed_score; base in hundredths, result at Scale
get_decayed_score(base, timestamp, t) ==
    LET age == AgeDays(timestamp, t)
        half_life == base      \* 100 * base_score, base_score = base / 100
    IN  IF age <= 0 THEN base * (Scale \div 100)
        ELSE IF half_life <= 0 THEN 0
        ELSE (base * (Scale \div 100) * DecayFactor(age, half_life)) \div Scale

\* recency = 1.0 / (1 + age_days / 30)
Recency(timestamp, t) == (Scale * 30) \div (30 + AgeDays(timestamp, t))

\* budget.py: budget_rank = decayed_importance * 0.6 + recency * 0.4  (times 10)
budget_rank(r, t) ==
    6 * get_decayed_score(r.importance, r.timestamp, t) + 4 * Recency(r.timestamp, t)

\* episodic.py: relevance = similarity*0.5 + decayed_importance*0.3 + recency*0.2 (times 10)
relevance_score(r, sim, t) ==
    5 * sim + 3 * get_decayed_score(r.importance, r.timestamp, t)
            + 2 * Recency(r.timestamp, t)

\* ---------------------------------------------------------------- store
\* a search that ignores the status column and keeps rows without an embedding
search_episodes_any_status(tbl, qvec, limit, status) ==
    LET all == [i \in 1..Len(tbl) |-> i]
        Sim(i) == Cosine(qvec, tbl[i].embedding)
    IN  Take(SortDesc(all, Sim), limit)

\* SQLiteMemoryStore.search_episodes: ids, best similarity first
search_episodes(tbl, qvec, limit, status) ==
    LET all == [i \in 1..Len(tbl) |-> i]
        Sel(i) == tbl[i].status = status /\ tbl[i].embedding # Null
        Sim(i) == Cosine(qvec, tbl[i].embedding)
    IN  Take(SortDesc(FilterSeq(all, Sel), Sim), limit)

\* EpisodicMemoryManager.retrieve_relevant, given the query's embedding
retrieve_relevant(tbl, qvec, limit, t) ==
    LET candidates == search_episodes(tbl, qvec, limit * 4, "active")
        Rel(i) == relevance_score(tbl[i], Cosine(qvec, tbl[i].embedding), t)
    IN  Take(SortDesc(candidates, Rel), limit)

\* an update that activates the row without writing the embedding
StatusOnlyUpdate(r, vec) == [r EXCEPT !.status = "active"]

\* SQLiteMemoryStore.update_episode with {'embedding': blob, 'status': 'active'}
EmbeddingUpdate(r, vec) == [r EXCEPT !.embedding = vec, !.status = "active"]

\* an archiving that also clears the importance
ArchiveUpdateClearsImportance(r) == [r EXCEPT !.status = "archived", !.importance = 0]

\* SQLiteMemoryStore.update_episode with {'status': 'archived'}
ArchiveUpdate(r) == [r EXCEPT !.status = "archived"]

\* ---------------------------------------------------------------- budget
\* MemoryBudget.enforce: the rows fetched for ranking
FetchActive(tbl) == search_episodes(tbl, ZeroVec, max_active + FetchMargin, "active")

\* MemoryBudget.enforce: the ids it archives
ToArchive(tbl, t) ==
    LET all_active == FetchActive(tbl)
        Rank(i) == budget_rank(tbl[i], t)
    IN  IF Len(all_active) <= max_active THEN {}
        ELSE Range(Drop(SortDesc(all_active, Rank), max_active))

\* MemoryBudget.enforce
enforce(tbl, t) ==
    [i \in 1..Len(tbl) |->
        IF i \in ToArchive(tbl, t) THEN ArchiveUpdate(tbl[i]) ELSE tbl[i]]

ActiveIds(tbl) == {i \in 1..Len(tbl) : tbl[i].status = "active"}

\* --------------------------------------------------------- consolidation
\* a Python dict as a sequence of [k, v] entries in insertion order
DictHas(d, k) == \E j \in 1..Len(d) : d[j].k = k
DictSet(d, k, v) ==
    IF DictHas(d, k)
    THEN [j \in 1..Len(d) |-> IF d[j].k = k THEN [k |-> k, v |-> v] ELSE d[j]]
    ELSE Append(d, [k |-> k, v |-> v])
DictGet(d, k) == (CHOOSE j \in 1..Len(d) : d[j].k = k)
DictValues(d) == [j \in 1..Len(d) |-> d[j].v]

Singletons(eps) == [j \in 1..Len(eps) |-> <<eps[j]>>]

\* EpisodeClustering.cluster_episodes, lines 63-73: group by HDBSCAN label
RECURSIVE GroupByLabel(_, _, _)
GroupByLabel(eps, labelOf, clusters) ==
    IF eps = << >> THEN clusters
    ELSE LET e == Head(eps)
             label == labelOf[e]
             next == IF label = -1
                     THEN DictSet(clusters, Len(clusters), <<e>>)
                     ELSE IF DictHas(clusters, label)
                          THEN DictSet(clusters, label,
                                       Append(clusters[DictGet(clusters, label)].v, e))
                          ELSE DictSet(clusters, label, <<e>>)
         IN  GroupByLabel(Tail(eps), labelOf, next)

\* EpisodeClustering.cluster_episodes; labelOf is what HDBSCAN.fit_predict returns
cluster_episodes(tbl, eps, labelOf) ==
    LET HasEmb(e) == tbl[e].embedding # Null
        valid_episodes == FilterSeq(eps, HasEmb)
    IN  IF Len(eps) < min_cluster_size THEN Singletons(eps)
        ELSE IF Len(valid_episodes) < min_cluster_size THEN Singletons(valid_episodes)
        ELSE DictValues(GroupByLabel(valid_episodes, labelOf, << >>))

\* a chunking that leaves the cluster whole
ChunksWhole(cluster) == <<cluster>>

\* cluster[i:i + max_cluster_size] for i in range(0, len(cluster), max_cluster_size)
RECURSIVE Chunks(_)
Chunks(cluster) ==
    IF cluster = << >> THEN << >>
    ELSE <<Take(cluster, max_cluster_size)>> \o Chunks(Drop(cluster, max_cluster_size))

AllFit(clusters) == \A j \in 1..Len(clusters) : Len(clusters[j]) <= max_cluster_size

\* EpisodeClustering.split_large_clusters; every pass of its while loop makes
\* the same cluster_episodes call, so one evaluation decides the loop
RECURSIVE split_large_clusters(_, _, _)
split_large_clusters(tbl, clusters, relabel) ==
    IF clusters = << >> THEN << >>
    ELSE LET cluster == Head(clusters)
             first_min == IF max_cluster_size \div 2 + 1 > 2
                          THEN max_cluster_size \div 2 + 1 ELSE 2
             subclusters == cluster_episodes(tbl, cluster, relabel)
             part == IF Len(cluster) <= max_cluster_size THEN <<cluster>>
                     ELSE IF first_min <= max_cluster_size /\ AllFit(subclusters)
                          THEN subclusters
                          ELSE Chunks(cluster)
         IN  part \o split_large_clusters(tbl, Tail(clusters), relabel)

RECURSIVE FinalChunks(_)
FinalChunks(batches) ==
    IF batches = << >> THEN << >>
    ELSE (IF Len(Head(batches)) <= max_cluster_size
          THEN <<Head(batches)>> ELSE Chunks(Head(batches)))
         \o FinalChunks(Tail(batches))

\* EpisodeClustering.create_consolidation_batches
create_consolidation_batches(tbl, eps, labelOf, relabel) ==
    IF eps = << >> THEN << >>
    ELSE FinalChunks(split_large_clusters(tbl, cluster_episodes(tbl, eps, labelOf), relabel))

\* store.get_unconsolidated_episodes(status='active')
get_unconsolidated_episodes(tbl) ==
    LET all == [i \in 1..Len(tbl) |-> i]
        Sel(i) == tbl[i].status = "active"
    IN  FilterSeq(all, Sel)

\* store.mark_episodes_consolidated(ids)
mark_episodes_consolidated(tbl, ids) ==
    [i \in 1..Len(tbl) |->
        IF i \in Range(ids) THEN [tbl[i] EXCEPT !.status = "consolidated"] ELSE tbl[i]]

\* SQLiteMemoryStore.add_semantic_fact: the row it inserts; semantic_memory has
\* no embedding column and the insert names none
add_semantic_fact(fact_data) ==
    [confidence |-> fact_data.confidence,
     status |-> fact_data.status,
     derived_from |-> fact_data.derived_from]

\* the facts one extraction stores for a batch (deep_layers.py lines 56-66)
NewFacts(batch, n) ==
    [j \in 1..n |-> add_semantic_fact([confidence |-> 70, status |-> "stable",
                                       derived_from |-> batch,
                                       embedding |-> CHOOSE v \in EmbedVecs : TRUE])]

\* the filters search_memory and _refresh_cache pass to search_memories
SearchFilters == [status |-> "active", confidence__gt |-> 50]

\* MemoryRetriever.vector_search: ids, best similarity first; a table without
\* an embedding column makes the query fail, which leaves no result
vector_search(tbl, table, qvec, limit, filters) ==
    LET all == [i \in 1..Len(tbl) |-> i]
        Sel(i) == /\ tbl[i].status = filters.status
                  /\ table = "semantic_memory" => tbl[i].confidence > filters.confidence__gt
                  /\ "embedding" \in DOMAIN tbl[i]
                  /\ tbl[i].embedding # Null
        Sim(i) == Cosine(qvec, tbl[i].embedding)
    IN  Take(SortDesc(FilterSeq(all, Sel), Sim), limit)

\* -------------------------------------------------------------- actions
StreamInit ==
    /\ recent_turns = << >>
    /\ turnCount = 0
    /\ cache = Null
    /\ refreshTasks = << >>
    /\ refreshSeq = 0
    /\ running = FALSE
    /\ reader = [pc |-> "idle"]

CtxInit ==
    /\ ctx = Null
    /\ tool_output = Null
    /\ in_turn = FALSE

AppInit ==
    /\ backend = Null
    /\ co = [pc |-> "idle", turn |-> 0, turn_count |-> 0, pending |-> << >>,
             calls |-> 0, agentic_calls |-> 0]
    /\ agentic = [is_active |-> FALSE, iteration |-> 0]
    /\ interrupt = FALSE
    /\ log = << >>
    /\ stores = << >>
    /\ messages = << >>
    /\ srv = [state |-> "idle", reqs |-> << >>]

Init ==
    /\ rows = << >>
    /\ facts = << >>
    /\ queue = << >>
    /\ processing = FALSE
    /\ created = 0
    /\ inflight = {}
    /\ embedCalls = << >>
    /\ embedFailed = {}
    /\ addCount = 0
    /\ now = 0
    /\ cons = [pc |-> "idle"]
    /\ StreamInit
    /\ CtxInit
    /\ call = Null
    /\ AppInit

\* EpisodicMemoryManager.add_episode -> EmbeddingQueue.add_episode -> enforce_if_needed
AddEpisode(imp) ==
    /\ Len(rows) < MaxEpisodes
    /\ LET id == Len(rows) + 1
           inserted == Append(rows, [status |-> "pending_embedding", embedding |-> Null,
                                     importance |-> imp, timestamp |-> now,
                                     summary |-> id, full_text |-> id])
       IN  /\ queue' = Append(queue, id)
           /\ created' = IF processing THEN created ELSE created + 1
           /\ embedCalls' = Append(embedCalls, 0)
           /\ IF addCount + 1 >= check_frequency
              THEN rows' = enforce(inserted, now) /\ addCount' = 0
              ELSE rows' = inserted /\ addCount' = addCount + 1
    /\ UNCHANGED <<facts, processing, inflight, embedFailed, now, cons>>
    /\ UNCHANGED <<streamVars, ctxVars, call, appVars>>

\* a worker that ends without clearing self.processing
WorkerLoopKeepsFlag(done, flag) ==
    IF queue = << >>
    THEN /\ processing' = TRUE
         /\ inflight' = inflight \ done
         /\ UNCHANGED <<queue, embedCalls>>
    ELSE /\ processing' = flag
         /\ queue' = Tail(queue)
         /\ inflight' = (inflight \ done) \cup {Head(queue)}
         /\ embedCalls' = [embedCalls EXCEPT ![Head(queue)] = @ + 1]

\* _process_queue, lines 37-38 and 54: "while not self.queue.empty()" takes the
\* next item and hands its embed call to the executor, or the worker ends.
\* done: the item the worker has just finished; flag: self.processing so far
WorkerLoop(done, flag) ==
    IF queue = << >>
    THEN /\ processing' = FALSE
         /\ inflight' = inflight \ done
         /\ UNCHANGED <<queue, embedCalls>>
    ELSE /\ processing' = flag
         /\ queue' = Tail(queue)
         /\ inflight' = (inflight \ done) \cup {Head(queue)}
         /\ embedCalls' = [embedCalls EXCEPT ![Head(queue)] = @ + 1]

\* a created _process_queue task starts running: self.processing = True
WorkerStart ==
    /\ created > 0
    /\ created' = created - 1
    /\ WorkerLoop({}, TRUE)
    /\ UNCHANGED <<rows, facts, embedFailed, addCount, now, cons>>
    /\ UNCHANGED <<streamVars, ctxVars, call, appVars>>

\* the awaited embed call returns a vector: the generator's, or zeros after
\* EmbeddingService.embed caught a generator error
WorkerEmbedded(id, vec) ==
    /\ id \in inflight
    /\ rows' = [rows EXCEPT ![id] = EmbeddingUpdate(@, vec)]
    /\ embedFailed' = IF vec = ZeroVec THEN embedFailed \cup {id} ELSE embedFailed
    /\ WorkerLoop({id}, processing)
    /\ UNCHANGED <<facts, created, addCount, now, cons>>
    /\ UNCHANGED <<streamVars, ctxVars, call, appVars>>

\* the executor call or the store update raises: logged, the row is untouched
WorkerFailed(id) ==
    /\ id \in inflight
    /\ WorkerLoop({id}, processing)
    /\ UNCHANGED <<rows, facts, created, embedFailed, addCount, now, cons>>
    /\ UNCHANGED <<streamVars, ctxVars, call, appVars>>

\* MemoryBudget.enforce called directly
Enforce ==
    /\ rows' = enforce(rows, now)
    /\ rows' # rows
    /\ UNCHANGED <<facts, queue, processing, created, inflight, embedCalls, embedFailed,
                   addCount, now, cons>>
    /\ UNCHANGED <<streamVars, ctxVars, call, appVars>>

\* the wall clock advances; ages count whole days and a background task lasts
\* seconds, so the day is taken to change while no task is pending
Tick ==
    /\ now < MaxTicks * DayStep
    /\ queue = << >> /\ inflight = {} /\ created = 0 /\ cons.pc = "idle"
    /\ now' = now + DayStep
    /\ UNCHANGED <<rows, facts, queue, processing, created, inflight, embedCalls, embedFailed,
                   addCount, cons>>
    /\ UNCHANGED <<streamVars, ctxVars, call, appVars>>

\* perform_consolidation up to its first await: load, batch, start batch 1
ConsStart(labelOf, relabel) ==
    /\ cons.pc = "idle"
    /\ get_unconsolidated_episodes(rows) # << >>
    /\ LET batches == create_consolidation_batches(
                          rows, get_unconsolidated_episodes(rows), labelOf, relabel)
       IN  cons' = IF batches = << >>
                   THEN [pc |-> "relational", processed |-> << >>, failed |-> << >>,
                         errored |-> << >>, first_fact |-> Len(facts) + 1,
                         loaded |-> get_unconsolidated_episodes(rows)]
                   ELSE [pc |-> "extract", todo |-> batches, processed |-> << >>,
                         failed |-> << >>, errored |-> << >>,
                         first_fact |-> Len(facts) + 1,
                         loaded |-> get_unconsolidated_episodes(rows)]
    /\ UNCHANGED <<rows, facts, queue, processing, created, inflight, embedCalls, embedFailed,
                   addCount, now>>
    /\ UNCHANGED <<streamVars, ctxVars, call, appVars>>

\* perform_consolidation after a batch: next batch, or mark and go on to line 253.
\* processed: processed_episode_ids; failed: the batches whose extraction raised;
\* errored: the batches whose extraction caught an error of its own;
\* first_fact: where this run's facts start in semantic_memory; loaded: episodes
ConsAdvance(processed, failed, errored) ==
    IF Len(cons.todo) > 1
    THEN /\ cons' = [cons EXCEPT !.todo = Tail(cons.todo), !.processed = processed,
                                 !.failed = failed, !.errored = errored]
         /\ UNCHANGED rows
    ELSE /\ cons' = [pc |-> "relational", processed |-> processed, failed |-> failed,
                     errored |-> errored, first_fact |-> cons.first_fact,
                     loaded |-> cons.loaded]
         /\ rows' = IF processed # << >>
                    THEN mark_episodes_consolidated(rows, processed) ELSE rows

\* the awaited extraction returns, having stored n facts for the batch
ConsExtracted(n) ==
    /\ cons.pc = "extract"
    /\ facts' = facts \o NewFacts(Head(cons.todo), n)
    /\ ConsAdvance(cons.processed \o Head(cons.todo), cons.failed, cons.errored)
    /\ UNCHANGED <<queue, processing, created, inflight, embedCalls, embedFailed, addCount, now>>
    /\ UNCHANGED <<streamVars, ctxVars, call, appVars>>

\* the generator or the embedder fails inside the extraction, which catches the
\* error (deep_layers.py lines 70-72) and returns: nothing stored, no exception
ConsExtractSwallowed ==
    /\ cons.pc = "extract"
    /\ ConsAdvance(cons.processed \o Head(cons.todo), cons.failed,
                   Append(cons.errored, Head(cons.todo)))
    /\ UNCHANGED <<facts, queue, processing, created, inflight, embedCalls, embedFailed, addCount, now>>
    /\ UNCHANGED <<streamVars, ctxVars, call, appVars>>

\* the awaited extraction raises: the batch is skipped
ConsExtractFailed ==
    /\ cons.pc = "extract"
    /\ ConsAdvance(cons.processed, Append(cons.failed, Head(cons.todo)), cons.errored)
    /\ UNCHANGED <<facts, queue, processing, created, inflight, embedCalls, embedFailed, addCount, now>>
    /\ UNCHANGED <<streamVars, ctxVars, call, appVars>>

\* analyze_relationship returns and perform_consolidation ends
ConsFinish ==
    /\ cons.pc = "relational"
    /\ cons' = [pc |-> "idle"]
    /\ UNCHANGED <<rows, facts, queue, processing, created, inflight, embedCalls, embedFailed,
                   addCount, now>>
    /\ UNCHANGED <<streamVars, ctxVars, call, appVars>>

\* what HDBSCAN may return for the loaded episodes, and for a cluster that is
\* re-clustered (asked for only when some cluster is too large)
Labelings == [Range(get_unconsolidated_episodes(rows)) -> Labels]
Relabelings(labelOf) ==
    IF AllFit(cluster_episodes(rows, get_unconsolidated_episodes(rows), labelOf))
    THEN {labelOf} ELSE Labelings

Next ==
    \/ \E imp \in Importances : AddEpisode(imp)
    \/ WorkerStart
    \/ \E id \in inflight : \E vec \in EmbedVecs : WorkerEmbedded(id, vec)
    \/ \E id \in inflight : WorkerEmbedded(id, ZeroVec)
    \/ \E id \in inflight : WorkerFailed(id)
    \/ Enforce
    \/ Tick

\* the same, interleaved with a perform_consolidation run
FullNext ==
    \/ Len(rows) < MaxConsEpisodes /\ \E imp \in Importances : AddEpisode(imp)
    \/ WorkerStart
    \/ \E id \in inflight : \E vec \in EmbedVecs : WorkerEmbedded(id, vec)
    \/ \E id \in inflight : WorkerEmbedded(id, ZeroVec)
    \/ \E id \in inflight : WorkerFailed(id)
    \/ Enforce
    \/ Tick
    \/ \E labelOf \in Labelings : \E relabel \in Relabelings(labelOf) : ConsStart(labelOf, relabel)
    \/ \E n \in FactCounts : ConsExtracted(n)
    \/ ConsExtractFailed
    \/ ConsExtractSwallowed
    \/ ConsFinish

Spec == Init /\ [][Next]_vars
FullSpec == Init /\ [][FullNext]_vars

\* the embedder and the store succeed, and the background loop runs every task
\* it has been given
LiveNext ==
    \/ \E imp \in Importances : AddEpisode(imp)
    \/ WorkerStart
    \/ \E id \in inflight : \E vec \in EmbedVecs : WorkerEmbedded(id, vec)
    \/ Enforce
    \/ Tick

LiveSpec ==
    /\ Init
    /\ [][LiveNext]_vars
    /\ WF_vars(WorkerStart)
    /\ \A id \in 1..MaxEpisodes : WF_vars(\E vec \in EmbedVecs : WorkerEmbedded(id, vec))
\* ------------------------------------------------------- prefetch stream
\* A turn is its arrival number; a context is the window of turns it was
\* joined from; the lists of one refresh carry that refresh's number.
Last(s) == s[Len(s)]

\* a refresh that embeds the window captured when it was scheduled
context_text_when_scheduled(task) == IF task = << >> THEN recent_turns ELSE task

\* _refresh_cache line 144: context_text = " ".join(self._recent_turns);
\* task is the window at the time the refresh was scheduled
context_text(task) == recent_turns

\* AsyncMemoryStream.start
StreamStart ==
    /\ ~running
    /\ running' = TRUE
    /\ UNCHANGED <<recent_turns, turnCount, cache, refreshTasks, refreshSeq, reader>>
    /\ UNCHANGED <<storeVars, ctxVars, call, appVars>>

\* an add_turn_context that evicts the newest turn instead of the oldest
AddTurnContextEvictsNewest ==
    /\ turnCount < MaxTurns
    /\ turnCount' = turnCount + 1
    /\ LET appended == Append(recent_turns, turnCount + 1)
           window == IF Len(appended) > max_recent_turns
                     THEN SubSeq(appended, 1, max_recent_turns) ELSE appended
       IN  /\ recent_turns' = window
           /\ refreshTasks' = IF running THEN Append(refreshTasks, window) ELSE refreshTasks
    /\ UNCHANGED <<cache, refreshSeq, running, reader>>
    /\ UNCHANGED <<storeVars, ctxVars, call, appVars>>

\* AsyncMemoryStream.add_turn_context
AddTurnContext ==
    /\ turnCount < MaxTurns
    /\ turnCount' = turnCount + 1
    /\ LET appended == Append(recent_turns, turnCount + 1)
           window == IF Len(appended) > max_recent_turns THEN Tail(appended) ELSE appended
       IN  /\ recent_turns' = window
           /\ refreshTasks' = IF running THEN Append(refreshTasks, window) ELSE refreshTasks
    /\ UNCHANGED <<cache, refreshSeq, running, reader>>
    /\ UNCHANGED <<storeVars, ctxVars, call, appVars>>

\* a refresh that keeps whatever cache already exists
RefreshCacheOnlyWhenEmpty(task, outcome) ==
    IF context_text(task) = << >> \/ outcome = "raise" \/ cache # Null
    THEN UNCHANGED <<cache, refreshSeq>>
    ELSE /\ refreshSeq' = refreshSeq + 1
         /\ cache' = [episodic_memories |-> refreshSeq + 1,
                      semantic_facts |-> refreshSeq + 1,
                      context |-> context_text(task),
                      zero_embedding |-> (outcome = "zero"),
                      turn_count |-> 0,
                      scheduled_for |-> task]

\* AsyncMemoryStream._refresh_cache, run to its end by the loop.
\* task: the window at scheduling, << >> for the stream worker's own call;
\* outcome: "ok", "zero" (embed fell back to zeros) or "raise" (search failed)
RefreshCache(task, outcome) ==
    IF context_text(task) = << >> \/ outcome = "raise"
    THEN UNCHANGED <<cache, refreshSeq>>
    ELSE /\ refreshSeq' = refreshSeq + 1
         /\ cache' = [episodic_memories |-> refreshSeq + 1,
                      semantic_facts |-> refreshSeq + 1,
                      context |-> context_text(task),
                      zero_embedding |-> (outcome = "zero"),
                      turn_count |-> 0,
                      scheduled_for |-> task]

RefreshOutcomes == {"ok", "zero", "raise"}

\* refreshes are counted up to MaxRefresh; past it only a refresh for a window
\* the cache does not hold yet still runs
RefreshAllowed(task) ==
    IF refreshSeq < MaxRefresh \/ cache = Null THEN TRUE
    ELSE cache.context # context_text(task)

\* the loop runs the oldest _refresh_cache task add_turn_context created
RefreshTask(outcome) ==
    /\ refreshTasks # << >>
    /\ RefreshAllowed(Head(refreshTasks))
    /\ refreshTasks' = Tail(refreshTasks)
    /\ RefreshCache(Head(refreshTasks), outcome)
    /\ UNCHANGED <<recent_turns, turnCount, running, reader>>
    /\ UNCHANGED <<storeVars, ctxVars, call, appVars>>

\* one pass of _stream_worker: refresh if there is context, then sleep
StreamWorker(outcome) ==
    /\ running
    /\ recent_turns # << >>
    /\ RefreshAllowed(<< >>)
    /\ RefreshCache(<< >>, outcome)
    /\ UNCHANGED <<recent_turns, turnCount, refreshTasks, running, reader>>
    /\ UNCHANGED <<storeVars, ctxVars, call, appVars>>

\* get_cached_memories, run by build_context on the foreground thread in a loop
\* of its own: every read of self._cache or self._recent_turns is one step
\* line 108: if not self._cache: return None
ReaderCheck ==
    /\ reader.pc = "idle"
    /\ reader' = IF cache = Null THEN [pc |-> "done", result |-> Null]
                 ELSE [pc |-> "context"]
    /\ UNCHANGED <<recent_turns, turnCount, cache, refreshTasks, refreshSeq, running>>
    /\ UNCHANGED <<storeVars, ctxVars, call, appVars>>

\* lines 112-117: join the window and embed it (zeros when the generator fails)
ReaderEmbed(zero) ==
    /\ reader.pc = "context"
    /\ reader' = IF recent_turns = << >> THEN [pc |-> "done", result |-> Null]
                 ELSE [pc |-> "validate", context |-> recent_turns, zero |-> zero]
    /\ UNCHANGED <<recent_turns, turnCount, cache, refreshTasks, refreshSeq, running>>
    /\ UNCHANGED <<storeVars, ctxVars, call, appVars>>

\* MemoryCache.is_valid; similar: cosine similarity above 0.7 for two
\* different contexts, which is the embedder's to decide
is_valid(c, context, zero, similar) ==
    IF c.turn_count >= max_cache_turns THEN FALSE
    ELSE IF c.zero_embedding \/ zero THEN FALSE
    ELSE IF c.context = context THEN TRUE
    ELSE similar

\* line 118: if self._cache.is_valid(...)
ReaderValidate(similar) ==
    /\ reader.pc = "validate"
    /\ reader' = IF is_valid(cache, reader.context, reader.zero, similar)
                 THEN [pc |-> "count"]
                 ELSE [pc |-> "done", result |-> Null]
    /\ UNCHANGED <<recent_turns, turnCount, cache, refreshTasks, refreshSeq, running>>
    /\ UNCHANGED <<storeVars, ctxVars, call, appVars>>

\* line 120: self._cache.turn_count += 1
ReaderCount ==
    /\ reader.pc = "count"
    /\ cache' = [cache EXCEPT !.turn_count = @ + 1]
    /\ reader' = [pc |-> "episodic"]
    /\ UNCHANGED <<recent_turns, turnCount, refreshTasks, refreshSeq, running>>
    /\ UNCHANGED <<storeVars, ctxVars, call, appVars>>

\* line 129: 'episodic': self._cache.episodic_memories
ReaderEpisodic ==
    /\ reader.pc = "episodic"
    /\ reader' = [pc |-> "semantic", episodic |-> cache.episodic_memories]
    /\ UNCHANGED <<recent_turns, turnCount, cache, refreshTasks, refreshSeq, running>>
    /\ UNCHANGED <<storeVars, ctxVars, call, appVars>>

\* line 130: 'semantic': self._cache.semantic_facts, and the dict is returned
ReaderSemantic ==
    /\ reader.pc = "semantic"
    /\ reader' = [pc |-> "done",
                  result |-> [episodic |-> reader.episodic,
                              semantic |-> cache.semantic_facts]]
    /\ UNCHANGED <<recent_turns, turnCount, cache, refreshTasks, refreshSeq, running>>
    /\ UNCHANGED <<storeVars, ctxVars, call, appVars>>

\* build_context has used the result; a later turn calls again
ReaderReturn ==
    /\ reader.pc = "done"
    /\ reader' = [pc |-> "idle"]
    /\ UNCHANGED <<recent_turns, turnCount, cache, refreshTasks, refreshSeq, running>>
    /\ UNCHANGED <<storeVars, ctxVars, call, appVars>>

StreamNext ==
    \/ StreamStart
    \/ AddTurnContext
    \/ \E outcome \in RefreshOutcomes : RefreshTask(outcome)
    \/ \E outcome \in RefreshOutcomes : StreamWorker(outcome)
    \/ ReaderCheck
    \/ \E zero \in BOOLEAN : ReaderEmbed(zero)
    \/ \E similar \in BOOLEAN : ReaderValidate(similar)
    \/ ReaderCount
    \/ ReaderEpisodic
    \/ ReaderSemantic
    \/ ReaderReturn

StreamSpec == Init /\ [][StreamNext]_vars

\* the stream with an embedder and a retriever that succeed, on a fair loop:
\* scheduled refresh tasks run, and the stream worker wakes up every second
StreamLiveNext ==
    \/ StreamStart
    \/ AddTurnContext
    \/ RefreshTask("ok")
    \/ StreamWorker("ok")
    \/ ReaderCheck
    \/ ReaderEmbed(FALSE)
    \/ \E similar \in BOOLEAN : ReaderValidate(similar)
    \/ ReaderCount
    \/ ReaderEpisodic
    \/ ReaderSemantic
    \/ ReaderReturn

StreamLiveSpec ==
    /\ Init
    /\ [][StreamLiveNext]_vars
    /\ WF_vars(RefreshTask("ok"))
    /\ WF_vars(StreamWorker("ok"))

\* a step that is one _refresh_cache execution
RefreshStep == \E outcome \in RefreshOutcomes : RefreshTask(outcome) \/ StreamWorker(outcome)

\* a step of the get_cached_memories call in progress
ReaderStep == reader' # reader /\ reader.pc # "done"

\* -------------------------------------------------------- context builder
\* A text is the sequence of the lengths of its lines: "ab\ncdef" is <<2, 4>>
\* and "" is <<0>>. A line of positive length begins and ends with a character
\* that is not white space.
EmptyStr == <<0>>
StrLen(t) == SumSeq(t) + Len(t) - 1
StrCat(a, b) == SubSeq(a, 1, Len(a) - 1) \o <<a[Len(a)] + b[1]>> \o Tail(b)
IsBlank(t) == \A i \in 1..Len(t) : t[i] = 0

\* str.strip(): leading and trailing empty lines go
RECURSIVE LStrip(_)
LStrip(t) == IF Len(t) > 1 /\ Head(t) = 0 THEN LStrip(Tail(t)) ELSE t
RECURSIVE RStrip(_)
RStrip(t) ==
    IF Len(t) > 1 /\ t[Len(t)] = 0 THEN RStrip(SubSeq(t, 1, Len(t) - 1)) ELSE t
Strip(t) == RStrip(LStrip(t))

\* context.py count_tokens_approx
count_tokens_approx(t) == StrLen(t) \div 4

\* len(f"--- {label} ---")
HeaderLen(label) ==
    CASE label = "TOOL_RESULTS" -> 20
      [] label = "EPISODIC" -> 16
      [] label = "FACTS" -> 13

\* format_section's body: content is the tool text, or the lengths of the
\* summaries ("[YYYY-MM-DD] " goes in front), or of the facts ("- " in front)
SectionBody(label, content) ==
    CASE label = "TOOL_RESULTS" -> content
      [] label = "EPISODIC" -> [i \in 1..Len(content) |-> 13 + content[i]]
      [] label = "FACTS" -> [i \in 1..Len(content) |-> 2 + content[i]]

\* is the content falsy: None, "" or []
NoContent(content) == content = Null \/ content = EmptyStr

\* context.py format_section: header, "\n", body, "\n\n"
format_section(label, content) ==
    IF NoContent(content) THEN EmptyStr
    ELSE <<HeaderLen(label)>> \o SectionBody(label, content) \o <<0, 0>>

\* context.py truncate_to_budget: whole lines while their token counts fit
RECURSIVE KeepItems(_, _, _)
KeepItems(items, current_tokens, max_tokens) ==
    IF items = << >> THEN << >>
    ELSE LET item_tokens == (Head(items) + 1) \div 4
         IN  IF current_tokens + item_tokens <= max_tokens
             THEN <<Head(items)>> \o KeepItems(Tail(items), current_tokens + item_tokens,
                                               max_tokens)
             ELSE << >>

truncate_to_budget(text, max_tokens) ==
    LET result == KeepItems(text, 0, max_tokens)
    IN  IF result = << >> THEN EmptyStr ELSE result

\* build_context line 85
ToolCap == 400
tool_budget(token_budget) ==
    IF ToolCap < token_budget \div 3 THEN ToolCap ELSE token_budget \div 3

\* build_context line 182: minimum useful space
MinUseful == 50

\* one section offered to the builder with max_tokens available for it:
\* included in full, truncated, or skipped
PlaceSection(label, content, section_fits, max_tokens) ==
    LET section_text == format_section(label, content)
        truncated == truncate_to_budget(section_text, max_tokens)
    IN  IF section_fits
        THEN [label |-> label, status |-> "full", text |-> section_text]
        ELSE IF IsBlank(truncated)
        THEN [label |-> label, status |-> "skipped", text |-> EmptyStr]
        ELSE [label |-> label, status |-> "truncated",
              text |-> StrCat(truncated, <<0, 0, 0>>)]

\* build_context lines 79-108: the privileged tool section
ToolSection(token_budget, tool_results) ==
    IF NoContent(tool_results) THEN << >>
    ELSE <<PlaceSection("TOOL_RESULTS", tool_results,
               count_tokens_approx(format_section("TOOL_RESULTS", tool_results))
                   <= tool_budget(token_budget),
               tool_budget(token_budget))>>

TokensOf(sections) == SumSeq([i \in 1..Len(sections) |->
    IF sections[i].status = "skipped" THEN 0 ELSE count_tokens_approx(sections[i].text)])

\* build_context lines 152-195: the loop over the regular sections; done is
\* what the builder has placed so far
RECURSIVE RegularSections(_, _, _)
RegularSections(token_budget, done, todo) ==
    IF todo = << >> THEN done
    ELSE LET label == Head(todo).label
             content == Head(todo).content
             tokens_used == TokensOf(done)
             available == token_budget - tokens_used
             section_tokens == count_tokens_approx(format_section(label, content))
             skipped == [label |-> label, status |-> "skipped", text |-> EmptyStr]
         IN  IF content = << >> THEN RegularSections(token_budget, done, Tail(todo))
             ELSE IF tokens_used >= token_budget THEN Append(done, skipped)
             ELSE IF section_tokens <= available
             THEN RegularSections(token_budget,
                      Append(done, PlaceSection(label, content, TRUE, available)),
                      Tail(todo))
             ELSE IF available > MinUseful
             THEN Append(done, PlaceSection(label, content, FALSE, available))
             ELSE Append(done, skipped)

\* a builder that places the tool section after the regular ones
AssembleSectionsToolLast(token_budget, tool_results, episodic_memories, semantic_facts) ==
    RegularSections(token_budget, << >>,
        <<[label |-> "EPISODIC", content |-> episodic_memories],
          [label |-> "FACTS", content |-> semantic_facts]>>)
        \o ToolSection(token_budget, tool_results)

\* the order in which build_context considers the sections
AssembleSections(token_budget, tool_results, episodic_memories, semantic_facts) ==
    RegularSections(token_budget, ToolSection(token_budget, tool_results),
        <<[label |-> "EPISODIC", content |-> episodic_memories],
          [label |-> "FACTS", content |-> semantic_facts]>>)

\* "".join(context_parts).strip()
RECURSIVE JoinParts(_)
JoinParts(sections) ==
    IF sections = << >> THEN EmptyStr
    ELSE IF Head(sections).status = "skipped" THEN JoinParts(Tail(sections))
    ELSE StrCat(Head(sections).text, JoinParts(Tail(sections)))

\* ContextBuilder.build_context, given the memories it found passively
build_context(token_budget, tool_results, episodic_memories, semantic_facts) ==
    LET sections == AssembleSections(token_budget, tool_results, episodic_memories,
                                     semantic_facts)
    IN  [token_budget |-> token_budget,
         tool_results |-> tool_results,
         sections |-> sections,
         tokens_used |-> TokensOf(sections),
         built |-> Strip(JoinParts(sections))]

\* inputs
Budgets == {30, 200, 1500}
ToolLineLens == {0, 5, 100}
SummaryLens == {19, 400}
FactLens == {32, 900}
RECURSIVE SeqsUpTo(_, _)
SeqsUpTo(S, n) ==
    IF n = 0 THEN {<< >>}
    ELSE LET shorter == SeqsUpTo(S, n - 1)
         IN  shorter \cup {Append(q, x) : q \in {r \in shorter : Len(r) = n - 1}, x \in S}
ToolTexts ==
    (SeqsUpTo(ToolLineLens, MaxToolLines) \ {<< >>})
        \cup {[i \in 1..ManyShort |-> 2], [i \in 1..ManyMedium |-> 6]}

\* a caller hands build_context a tool result text (or none) with the memories;
\* the function keeps no state, so one such call per behaviour covers them all.
\* The program's own calls are the coordinator's, below
BuildContext(token_budget, tool_results, episodic_memories, semantic_facts) ==
    /\ ctx = Null
    /\ ctx' = build_context(token_budget, tool_results, episodic_memories, semantic_facts)
    /\ UNCHANGED <<tool_output, in_turn>>
    /\ UNCHANGED <<storeVars, streamVars, call, appVars>>

\* the model calls the search_memory tool during a turn; it returns a text
SearchMemory(text) ==
    /\ in_turn
    /\ tool_output = Null
    /\ tool_output' = text
    /\ UNCHANGED <<ctx, in_turn>>
    /\ UNCHANGED <<storeVars, streamVars, call, appVars>>

\* LLMCoordinator.run lines 49-55 at the start of the next turn:
\* context_builder.build_context(prompt)
CoordinatorRun(token_budget, episodic_memories, semantic_facts) ==
    /\ ctx = Null \/ in_turn
    /\ ctx' = build_context(token_budget, Null, episodic_memories, semantic_facts)
    /\ tool_output' = Null
    /\ in_turn' = TRUE
    /\ UNCHANGED <<storeVars, streamVars, call, appVars>>

CtxNext ==
    \/ \E b \in Budgets : \E t \in ToolTexts \cup {Null, EmptyStr} :
       \E e \in SeqsUpTo(SummaryLens, MaxItems) : \E f \in SeqsUpTo(FactLens, MaxItems) :
           BuildContext(b, t, e, f)
    \/ \E t \in {x \in ToolTexts : Len(x) <= MaxToolLines} : SearchMemory(t)
    \/ \E b \in Budgets :
       \E e \in SeqsUpTo(SummaryLens, MaxItems) : \E f \in SeqsUpTo(FactLens, MaxItems) :
           CoordinatorRun(b, e, f)

CtxSpec == Init /\ [][CtxNext]_vars

\* a step that is the coordinator's build_context call of a new turn
CoordinatorRunStep ==
    \E b \in Budgets :
    \E e \in SeqsUpTo(SummaryLens, MaxItems) : \E f \in SeqsUpTo(FactLens, MaxItems) :
        CoordinatorRun(b, e, f)

\* ------------------------------------------------------------------ text
\* A str is the sequence of its characters.
UpperChars == <<"A", "B", "C", "D", "E", "F", "G", "H", "I", "J", "K", "L", "M", "N", "O", "P", "Q", "R", "S", "T", "U", "V", "W", "X", "Y", "Z">>
LowerChars == <<"a", "b", "c", "d", "e", "f", "g", "h", "i", "j", "k", "l", "m", "n", "o", "p", "q", "r", "s", "t", "u", "v", "w", "x", "y", "z">>
Whitespace == {" ", "\n", "\t"}

LetterIndex(alphabet, c) == CHOOSE i \in 1..Len(alphabet) : alphabet[i] = c

\* str.lower on one character
lower_char(c) ==
    IF c \in Range(UpperChars) THEN LowerChars[LetterIndex(UpperChars, c)] ELSE c

\* str.upper on one character
upper_char(c) ==
    IF c \in Range(LowerChars) THEN UpperChars[LetterIndex(LowerChars, c)] ELSE c

\* a lower() that leaves the text as it is
keep_case(s) == s

\* str.lower
lower(s) == [i \in 1..Len(s) |-> lower_char(s[i])]

\* str.upper
upper(s) == [i \in 1..Len(s) |-> upper_char(s[i])]

\* kw in s
contains(s, kw) ==
    \E i \in 0..(Len(s) - Len(kw)) : SubSeq(s, i + 1, i + Len(kw)) = kw

\* str.strip
RECURSIVE strip(_)
strip(s) ==
    IF s = << >> THEN s
    ELSE IF Head(s) \in Whitespace THEN strip(Tail(s))
    ELSE IF s[Len(s)] \in Whitespace THEN strip(SubSeq(s, 1, Len(s) - 1))
    ELSE s

\* --------------------------------------------------------------- gate
\* MemoryGate.should_remember: the explicit-request keywords
keywords == <<<<"r", "e", "m", "e", "m", "b", "e", "r", " ", "t", "h", "i", "s">>,
      <<"d", "o", "n", "'", "t", " ", "f", "o", "r", "g", "e", "t">>,
      <<"t", "a", "k", "e", " ", "a", " ", "n", "o", "t", "e">>,
      <<"k", "e", "e", "p", " ", "t", "h", "i", "s", " ", "i", "n", " ", "m", "i", "n", "d">>>>

YES == <<"Y", "E", "S">>

\* the generator call raises
GeneratorError == <<"error">>

\* MemoryGate.should_remember; client: whether self.client is set; answer:
\* response.text, or GeneratorError. generator_calls counts generate_content calls
should_remember(user_msg, assistant_msg, client, answer) ==
    IF \E i \in 1..Len(keywords) : contains(lower(user_msg), keywords[i])
    THEN [result |-> TRUE, generator_calls |-> 0]
    ELSE IF ~client
    THEN [result |-> TRUE, generator_calls |-> 0]
    ELSE IF answer = GeneratorError
    THEN [result |-> TRUE, generator_calls |-> 1]
    ELSE LET decision == upper(strip(answer))
         IN  [result |-> contains(decision, YES), generator_calls |-> 1]

\* ------------------------------------------------------------ importance
remember == <<"r", "e", "m", "e", "m", "b", "e", "r">>
personal_keywords == <<<<"i", " ", "a", "m">>,
      <<"i", " ", "w", "a", "n", "t">>,
      <<"i", " ", "l", "i", "k", "e">>,
      <<"m", "y", " ", "n", "a", "m", "e">>,
      <<"i", " ", "f", "e", "e", "l">>,
      <<"i", " ", "w", "o", "r", "k">>>>
i_will == <<"i", " ", "w", "i", "l", "l">>
promise == <<"p", "r", "o", "m", "i", "s", "e">>

\* a cap that lets the score through
uncapped(score, cap) == score

\* min(score, 1.0), in hundredths
min_score(score, cap) == IF score < cap THEN score ELSE cap

\* ImportanceScorer.calculate_importance, in hundredths
calculate_importance(user_msg, miyori_msg) ==
    LET score0 == 50
        score1 == IF contains(lower(user_msg), remember) THEN score0 + 30 ELSE score0
        score2 == IF \E i \in 1..Len(personal_keywords) :
                        contains(lower(user_msg), personal_keywords[i])
                  THEN score1 + 20 ELSE score1
        score3 == IF contains(lower(user_msg), i_will) \/ contains(lower(user_msg), promise)
                  THEN score2 + 25 ELSE score2
    IN  min_score(score3, 100)

\* ------------------------------------------------------- inputs of the calls
Prefixes == {<< >>,
     <<"o", "k", " ">>}
Suffixes == {<< >>,
     <<" ", "n", "o", "w">>}
GatePhrases == {<<"r", "e", "m", "e", "m", "b", "e", "r", " ", "t", "h", "i", "s">>,
     <<"R", "E", "M", "E", "M", "B", "E", "R", " ", "T", "H", "I", "S">>,
     <<"d", "o", "n", "'", "t", " ", "f", "o", "r", "g", "e", "t">>,
     <<"D", "o", "n", "'", "t", " ", "F", "o", "r", "g", "e", "t">>,
     <<"t", "a", "k", "e", " ", "a", " ", "n", "o", "t", "e">>,
     <<"T", "a", "k", "e", " ", "A", " ", "N", "o", "t", "e">>,
     <<"k", "e", "e", "p", " ", "t", "h", "i", "s", " ", "i", "n", " ", "m", "i", "n", "d">>,
     <<"K", "E", "E", "P", " ", "T", "H", "I", "S", " ", "I", "N", " ", "M", "I", "N", "D">>,
     <<"r", "e", "m", "e", "m", "b", "e", "r", " ", "t", "h", "a", "t">>,
     <<"d", "o", "n", "t", " ", "f", "o", "r", "g", "e", "t">>,
     <<"t", "a", "k", "e", " ", "n", "o", "t", "e">>,
     <<"h", "e", "l", "l", "o">>}
GateUserMsgs == {p \o ph \o x : p \in Prefixes, ph \in GatePhrases, x \in Suffixes}
AssistantMsgs == {<< >>,
     <<"r", "e", "m", "e", "m", "b", "e", "r", " ", "t", "h", "i", "s">>}
GeneratorAnswers == {<<"Y", "E", "S">>,
     <<"N", "O">>,
     <<" ", "y", "e", "s", "\n">>,
     <<"Y", "e", "s", ",", " ", "i", "t", " ", "i", "s">>,
     <<"N", "O", ",", " ", "n", "o", "t", " ", "a", " ", "Y", "E", "S">>,
     <<"m", "a", "y", "b", "e">>,
     << >>} \cup {GeneratorError}

RememberParts == {<< >>,
     <<"R", "e", "m", "e", "m", "b", "e", "r">>,
     <<"r", "e", "m", "e", "m", "b", "e", "r", "e", "d">>,
     <<"r", "e", "c", "a", "l", "l">>}
PersonalParts == {<< >>,
     <<"I", " ", "a", "m">>,
     <<"i", " ", "w", "a", "n", "t">>,
     <<"I", " ", "L", "I", "K", "E">>,
     <<"m", "y", " ", "n", "a", "m", "e">>,
     <<"i", " ", "f", "e", "e", "l">>,
     <<"I", " ", "w", "o", "r", "k">>,
     <<"h", "i", " ", "a", "m", "y">>,
     <<"w", "e", " ", "a", "r", "e">>}
CommitParts == {<< >>,
     <<"I", " ", "w", "i", "l", "l">>,
     <<"p", "r", "o", "m", "i", "s", "e">>,
     <<"P", "R", "O", "M", "I", "S", "E", "D">>,
     <<"i", " ", "w", "o", "n", "t">>}
Space == <<" ">>
ImportanceUserMsgs ==
    {r \o Space \o p \o Space \o c :
        r \in RememberParts, p \in PersonalParts, c \in CommitParts}

DecayBases == {0, 1, 50, 80, 100}
DecayStarts == {0, 7}
DecayElapsed == {0, 1, 49, 50, 51, 100, 399}

\* ------------------------------------------------------ chat history
\* A message is its role and the lengths, in characters, of its content, of the
\* str() of each tool call and of its further values (name, tool_call_id).
UserMessages == [role : {"user"}, content : {2, 16, 50}, tool_calls : {<< >>}, other : {<< >>}]
MiyoriMessages == [role : {"miyori"}, content : {0, 16}, tool_calls : {<< >>, <<40>>}, other : {<< >>}]
ToolMessages == [role : {"tool"}, content : {8, 60}, tool_calls : {<< >>}, other : {<<4, 1>>}]
HistMessages == UserMessages \cup MiyoriMessages \cup ToolMessages

\* ChatHistory._calculate_tokens: len(str(value)) // 4, value by value
RECURSIVE SumDiv4(_)
SumDiv4(lens) == IF lens = << >> THEN 0 ELSE (Head(lens) \div 4) + SumDiv4(Tail(lens))

RECURSIVE _calculate_tokens(_)
_calculate_tokens(msgs) ==
    IF msgs = << >> THEN 0
    ELSE LET msg == Head(msgs)
         IN  (msg.content \div 4) + SumDiv4(msg.tool_calls) + SumDiv4(msg.other)
                 + _calculate_tokens(Tail(msgs))

\* [i for i, msg in enumerate(self.messages) if msg["role"] == "user"], 1-based
user_indices(msgs) ==
    LET IsUser(i) == msgs[i].role = "user"
    IN  FilterSeq([i \in 1..Len(msgs) |-> i], IsUser)

\* a search that keeps only the last user turn
new_start_index_last_turn(msgs, target_tokens) ==
    Last(user_indices(msgs))

\* trim_to_limit, lines 83-91: the first user index whose suffix fits
\* target_tokens, the last user index when none fits
new_start_index(msgs, target_tokens) ==
    LET idxs == user_indices(msgs)
        Fits(idx) == _calculate_tokens(Drop(msgs, idx - 1)) <= target_tokens
        fitting == FilterSeq(idxs, Fits)
    IN  IF fitting # << >> THEN Head(fitting) ELSE Last(idxs)

\* trim_to_limit, lines 75-80: without a user message, pop the oldest message
\* while more than one is left and the count is above target_tokens
RECURSIVE PopOldest(_, _)
PopOldest(msgs, target_tokens) ==
    IF msgs # << >> /\ _calculate_tokens(msgs) > target_tokens /\ Len(msgs) > 1
    THEN PopOldest(Tail(msgs), target_tokens)
    ELSE msgs

\* ChatHistory.trim_to_limit
trim_to_limit(msgs, max, chunk_size) ==
    IF _calculate_tokens(msgs) <= max THEN msgs
    ELSE LET target_tokens == max - chunk_size
         IN  IF user_indices(msgs) = << >> THEN PopOldest(msgs, target_tokens)
             ELSE Drop(msgs, new_start_index(msgs, target_tokens) - 1)

\* ChatHistory.add_message
add_message(msgs, message) ==
    trim_to_limit(Append(msgs, message), MAX_HISTORY_TOKENS, TRIM_CHUNK_SIZE)

\* LLMCoordinator.run opens every turn with the user's message, so a history
\* starts with one; call keeps the list before trimming and the one after
AddMessage(message) ==
    /\ Len(messages) < MaxHistory
    /\ messages = << >> => message.role = "user"
    /\ messages' = add_message(messages, message)
    /\ call' = [fn |-> "add_message", before |-> Append(messages, message),
                ret |-> add_message(messages, message)]
    /\ UNCHANGED <<storeVars, streamVars, ctxVars>>
    /\ UNCHANGED <<turnVars, srv>>

\* ChatHistory.clear
ClearHistory ==
    /\ messages # << >>
    /\ messages' = << >>
    /\ call' = Null
    /\ UNCHANGED <<storeVars, streamVars, ctxVars>>
    /\ UNCHANGED <<turnVars, srv>>

HistNext ==
    \/ \E message \in HistMessages : AddMessage(message)
    \/ ClearHistory

HistSpec == Init /\ [][HistNext]_vars

\* -------------------------------------------------------------- turn
\* what __init__ finds: an api key or none, memory.enabled, whether building
\* the memory components raises, feature_flags.enable_gating
BackendConfigs ==
    {[api_key |-> TRUE, enabled |-> TRUE, init_fails |-> FALSE, enable_gating |-> FALSE],
     [api_key |-> TRUE, enabled |-> TRUE, init_fails |-> FALSE, enable_gating |-> TRUE],
     [api_key |-> TRUE, enabled |-> TRUE, init_fails |-> TRUE, enable_gating |-> FALSE],
     [api_key |-> TRUE, enabled |-> FALSE, init_fails |-> FALSE, enable_gating |-> FALSE],
     [api_key |-> FALSE, enabled |-> TRUE, init_fails |-> FALSE, enable_gating |-> FALSE]}

\* GoogleAIBackend.__init__: the client needs the key; memory_enabled is the
\* config's value and False only when the try block raises
GoogleAIBackend(cfg) ==
    [api_key |-> cfg.api_key,
     init_failed |-> cfg.init_fails,
     client |-> cfg.api_key,
     memory_enabled |-> IF cfg.init_fails THEN FALSE ELSE cfg.enabled,
     enable_gating |-> cfg.enable_gating]

BackendInit(cfg) ==
    /\ backend = Null
    /\ backend' = GoogleAIBackend(cfg)
    /\ UNCHANGED <<storeVars, streamVars, ctxVars, call>>
    /\ UNCHANGED <<co, agentic, interrupt, log, stores, messages, srv>>

\* a reset that leaves the iteration count
reset_keeps_iteration(state) == [state EXCEPT !.is_active = FALSE]

\* AgenticState.reset
reset(state) == [is_active |-> FALSE, iteration |-> 0]

\* the agentic_loop tool
agentic_loop(state) == [is_active |-> TRUE, iteration |-> 1]

Event(e) == <<co.turn, e>>
GeneratorCalls(events) ==
    Cardinality({i \in 1..Len(events) : events[i][2] = "generator_call"})
Running == co.pc \in {"check", "calling", "tools"}

\* GoogleAIBackend.llm_chat up to the loop of LLMCoordinator.run, lines 49-70;
\* handle_input_logic has cleared the interrupt flag before the request runs
RunStart ==
    /\ backend # Null
    /\ ~Running
    /\ co.turn < MaxRuns
    /\ interrupt' = FALSE
    /\ stores' = Append(stores, "none")
    /\ IF ~backend.client
       THEN /\ co' = [pc |-> "returned", turn |-> co.turn + 1, turn_count |-> 0,
                      pending |-> << >>, calls |-> 0, agentic_calls |-> 0]
            /\ UNCHANGED log
       ELSE /\ co' = [pc |-> "check", turn |-> co.turn + 1, turn_count |-> 0,
                      pending |-> << >>, calls |-> 0, agentic_calls |-> 0]
            /\ log' = IF backend.memory_enabled
                      THEN Append(log, <<co.turn + 1, "context_assembly">>)
                      ELSE log
    /\ UNCHANGED <<storeVars, streamVars, ctxVars, call>>
    /\ UNCHANGED <<backend, agentic, messages, srv>>

\* StateManager.request_interrupt, from another thread while a turn runs
SetInterrupt ==
    /\ Running
    /\ ~interrupt
    /\ interrupt' = TRUE
    /\ UNCHANGED <<storeVars, streamVars, ctxVars, call>>
    /\ UNCHANGED <<backend, co, agentic, log, stores, messages, srv>>

\* an interrupt check that never sees the flag
should_interrupt_never == FALSE

\* StateManager.should_interrupt, the interrupt_check of run
should_interrupt == interrupt

\* run, lines 75-131: the checks at the head of the loop, then the provider call
LoopCheck ==
    /\ co.pc = "check"
    /\ IF should_interrupt
       THEN /\ agentic' = reset(agentic)
            /\ co' = [co EXCEPT !.pc = "returned"]
            /\ UNCHANGED log
       ELSE IF agentic.is_active /\ agentic.iteration > max_iterations
       THEN /\ agentic' = reset(agentic)
            /\ co' = [co EXCEPT !.pc = "returned"]
            /\ log' = Append(log, Event("notice"))
       ELSE IF ~agentic.is_active /\ co.turn_count >= max_tool_turns
       THEN /\ co' = [co EXCEPT !.pc = "returned"]
            /\ UNCHANGED <<agentic, log>>
       ELSE /\ GeneratorCalls(log) < MaxCalls
            /\ co' = [co EXCEPT !.pc = "calling", !.turn_count = @ + 1,
                                !.calls = IF agentic.is_active THEN @ ELSE @ + 1,
                                !.agentic_calls = IF agentic.is_active THEN @ + 1 ELSE @]
            /\ log' = Append(log, Event("generator_call"))
            /\ UNCHANGED agentic
    /\ UNCHANGED <<storeVars, streamVars, ctxVars, call>>
    /\ UNCHANGED <<backend, interrupt, stores, messages, srv>>

\* the tool calls one response asks for
ToolCallLists ==
    {<< >>, <<"terminal">>, <<"agentic_loop">>, <<"exit_loop">>, <<"failing">>,
     <<"terminal", "terminal">>}

\* what the provider call gives: it raises, or a response with text, or one
\* without text that is empty or asks for a tool
Responses ==
    {[kind |-> "error", text |-> FALSE, tool_calls |-> << >>]}
        \cup [kind : {"ok"}, text : {TRUE}, tool_calls : ToolCallLists]
        \cup [kind : {"ok"}, text : {FALSE}, tool_calls : {<< >>, <<"terminal">>}]

\* store_turn_wrapper: _store_turn is scheduled when memory is enabled
store_turn_wrapper(tasks, turn) ==
    IF backend.memory_enabled THEN [tasks EXCEPT ![turn] = "gate"] ELSE tasks

\* run, lines 130-201: the provider call returns; chunk_ok: on_chunk returns
ProviderReturns(response, chunk_ok) ==
    /\ co.pc = "calling"
    /\ IF response.kind = "error"
       THEN /\ agentic' = reset(agentic)
            /\ co' = [co EXCEPT !.pc = "returned"]
            /\ UNCHANGED <<log, stores>>
       ELSE IF response.text /\ ~chunk_ok
       THEN /\ agentic' = reset(agentic)
            /\ co' = [co EXCEPT !.pc = "returned"]
            /\ UNCHANGED <<log, stores>>
       ELSE LET streamed == IF response.text THEN Append(log, Event("response_stream"))
                            ELSE log
            IN  IF response.tool_calls # << >>
                THEN /\ co' = [co EXCEPT !.pc = "tools", !.pending = response.tool_calls]
                     /\ log' = streamed
                     /\ UNCHANGED <<agentic, stores>>
                ELSE IF agentic.is_active
                THEN /\ agentic' = [agentic EXCEPT !.iteration = @ + 1]
                     /\ co' = [co EXCEPT !.pc = "check"]
                     /\ log' = streamed
                     /\ UNCHANGED stores
                ELSE /\ co' = [co EXCEPT !.pc = "returned"]
                     /\ log' = Append(streamed, Event("store_turn"))
                     /\ stores' = store_turn_wrapper(stores, co.turn)
                     /\ UNCHANGED agentic
    /\ UNCHANGED <<storeVars, streamVars, ctxVars, call>>
    /\ UNCHANGED <<backend, interrupt, messages, srv>>

\* run, lines 154-176 and 203-216: on_tool_call for the next tool call of the
\* response; chunk_ok: on_chunk returns in the AgenticExitSignal handler
ToolExec(chunk_ok) ==
    /\ co.pc = "tools"
    /\ LET tc_name == Head(co.pending)
           rest == Tail(co.pending)
           after == IF tc_name = "agentic_loop" THEN agentic_loop(agentic) ELSE agentic
       IN  IF tc_name = "exit_loop"
           THEN IF chunk_ok
                THEN /\ agentic' = reset(agentic)
                     /\ co' = [co EXCEPT !.pc = "returned", !.pending = << >>]
                     /\ log' = Append(log, Event("notice"))
                ELSE /\ co' = [co EXCEPT !.pc = "raised", !.pending = << >>]
                     /\ UNCHANGED <<agentic, log>>
           ELSE IF tc_name = "failing"
           THEN /\ chunk_ok
                /\ agentic' = reset(agentic)
                /\ co' = [co EXCEPT !.pc = "returned", !.pending = << >>]
                /\ UNCHANGED log
           ELSE /\ chunk_ok
                /\ UNCHANGED log
                /\ IF rest # << >>
                   THEN /\ co' = [co EXCEPT !.pending = rest]
                        /\ agentic' = after
                   ELSE /\ co' = [co EXCEPT !.pc = "check", !.pending = << >>]
                        /\ agentic' = IF after.is_active
                                      THEN [after EXCEPT !.iteration = @ + 1]
                                      ELSE after
    /\ UNCHANGED <<storeVars, streamVars, ctxVars, call>>
    /\ UNCHANGED <<backend, interrupt, stores, messages, srv>>

\* a _store_turn that feeds the prefetch stream before it writes the episode
NextStoreStepObserveFirst(pc, keep) ==
    IF pc = "gate" THEN (IF keep THEN "summarize" ELSE "observe_turn")
    ELSE IF pc = "summarize" THEN "observe_turn"
    ELSE IF pc = "observe_turn" THEN "episode_write"
    ELSE "done"

\* _store_turn, lines 146-171: the await that follows each of its steps
NextStoreStep(pc, keep) ==
    IF pc = "gate" THEN (IF keep THEN "summarize" ELSE "observe_turn")
    ELSE IF pc = "summarize" THEN "episode_write"
    ELSE IF pc = "episode_write" THEN "observe_turn"
    ELSE "done"

\* _store_turn runs one step on the background loop; keep: the gate's
\* answer; ok: the step does not raise
StoreStep(t, keep, ok) ==
    /\ stores[t] \notin {"none", "done", "failed"}
    /\ IF stores[t] = "gate"
       THEN /\ ok
            /\ keep \/ backend.enable_gating
            /\ log' = IF backend.enable_gating THEN Append(log, <<t, "gate">>) ELSE log
       ELSE /\ keep
            /\ log' = Append(log, <<t, stores[t]>>)
    /\ stores' = [stores EXCEPT ![t] = IF ok THEN NextStoreStep(@, keep) ELSE "failed"]
    /\ UNCHANGED <<storeVars, streamVars, ctxVars, call>>
    /\ UNCHANGED <<backend, co, agentic, interrupt, messages, srv>>

TurnNext ==
    \/ \E cfg \in BackendConfigs : BackendInit(cfg)
    \/ RunStart
    \/ SetInterrupt
    \/ LoopCheck
    \/ \E response \in Responses : \E chunk_ok \in BOOLEAN : ProviderReturns(response, chunk_ok)
    \/ \E chunk_ok \in BOOLEAN : ToolExec(chunk_ok)
    \/ \E t \in 1..Len(stores) : \E keep, ok \in BOOLEAN : StoreStep(t, keep, ok)

TurnSpec == Init /\ [][TurnNext]_vars

\* ------------------------------------------------------------ server
\* A request is its source and where its coroutine stands:
\*   "interrupting"  handle_input_logic awaits sleep(0.1) after request_interrupt
\*   "broadcast"     it has set PROCESSING and awaits broadcast_state
\*   "queued"        process_request is scheduled; the caller got "accepted"
\*   "speaking"      process_request has set SPEAKING and awaits sleep(0.5)
\*   "done", "rejected"
Sources == {"text", "voice"}

\* StateManager.can_accept_input
can_accept_input(state, is_text) ==
    IF state = "idle" THEN TRUE
    ELSE IF is_text /\ state = "speaking" THEN TRUE
    ELSE FALSE

SetReq(r, pc) == [srv.reqs EXCEPT ![r] = [@ EXCEPT !.pc = pc]]

\* handle_input_logic up to its first await, lines 49-75
ReceiveInput(source) ==
    /\ Len(srv.reqs) < MaxRequests
    /\ IF ~can_accept_input(srv.state, source = "text")
       THEN /\ srv' = [srv EXCEPT !.reqs = Append(@, [source |-> source, pc |-> "rejected"])]
            /\ UNCHANGED interrupt
       ELSE IF srv.state = "speaking"
       THEN /\ srv' = [srv EXCEPT !.reqs = Append(@, [source |-> source, pc |-> "interrupting"])]
            /\ interrupt' = TRUE
       ELSE /\ srv' = [state |-> "processing",
                        reqs |-> Append(srv.reqs, [source |-> source, pc |-> "broadcast"])]
            /\ interrupt' = FALSE
    /\ UNCHANGED <<storeVars, streamVars, ctxVars, call>>
    /\ UNCHANGED <<backend, co, agentic, log, stores, messages>>

\* handle_input_logic after sleep(0.1), lines 71-75
InterruptSlept(r) ==
    /\ srv.reqs[r].pc = "interrupting"
    /\ srv' = [state |-> "processing", reqs |-> SetReq(r, "broadcast")]
    /\ interrupt' = FALSE
    /\ UNCHANGED <<storeVars, streamVars, ctxVars, call>>
    /\ UNCHANGED <<backend, co, agentic, log, stores, messages>>

\* handle_input_logic after broadcast_state, lines 78-88
ScheduleRequest(r) ==
    /\ srv.reqs[r].pc = "broadcast"
    /\ srv' = [srv EXCEPT !.reqs = SetReq(r, "queued")]
    /\ UNCHANGED <<storeVars, streamVars, ctxVars, call, interrupt>>
    /\ UNCHANGED <<backend, co, agentic, log, stores, messages>>

\* process_request up to its await, lines 105-121, or to its end when there is
\* no chunk or process_input raises; process_input does not yield to the loop
ProcessRequest(r, chunks) ==
    /\ srv.reqs[r].pc = "queued"
    /\ srv' = IF chunks
              THEN [state |-> "speaking", reqs |-> SetReq(r, "speaking")]
              ELSE [state |-> "idle", reqs |-> SetReq(r, "done")]
    /\ UNCHANGED <<storeVars, streamVars, ctxVars, call, interrupt>>
    /\ UNCHANGED <<backend, co, agentic, log, stores, messages>>

\* process_request after sleep(0.5): the finally block, lines 128-132
FinishRequest(r) ==
    /\ srv.reqs[r].pc = "speaking"
    /\ srv' = [state |-> "idle", reqs |-> SetReq(r, "done")]
    /\ UNCHANGED <<storeVars, streamVars, ctxVars, call, interrupt>>
    /\ UNCHANGED <<backend, co, agentic, log, stores, messages>>

ServerNext ==
    \/ \E source \in Sources : ReceiveInput(source)
    \/ \E r \in 1..Len(srv.reqs) : InterruptSlept(r)
    \/ \E r \in 1..Len(srv.reqs) : ScheduleRequest(r)
    \/ \E r \in 1..Len(srv.reqs) : \E chunks \in BOOLEAN : ProcessRequest(r, chunks)
    \/ \E r \in 1..Len(srv.reqs) : FinishRequest(r)

ServerSpec == Init /\ [][ServerNext]_vars

\* --------------------------------------------------------- diversity
\* a pick that takes the last row of the cluster
last_of(cluster_indices, results) ==
    CHOOSE i \in cluster_indices : \A j \in cluster_indices : j <= i

\* max(cluster_indices, key=lambda i: results[i]['similarity']): the first index
\* with the largest similarity
best_of(cluster_indices, results) ==
    CHOOSE i \in cluster_indices :
        \A j \in cluster_indices :
            \/ results[j].similarity < results[i].similarity
            \/ results[j].similarity = results[i].similarity /\ i <= j

\* MemoryRetriever.diversity_sample; cluster_labels: what KMeans.fit_predict
\* returns for the rows that have an embedding, in their order
diversity_sample(results, limit, cluster_labels) ==
    IF Len(results) <= limit THEN results
    ELSE IF "embedding" \notin DOMAIN results[1] THEN Take(results, limit)
    ELSE
        LET HasEmb(r) == r.embedding # Null
            embeddings == FilterSeq(results, HasEmb)
            n_clusters == IF limit < Len(embeddings) THEN limit ELSE Len(embeddings)
            Indices(cluster_id) ==
                {i \in 1..Len(embeddings) : cluster_labels[i] = cluster_id}
            RECURSIVE Collect(_)
            Collect(cluster_id) ==
                IF cluster_id >= n_clusters THEN << >>
                ELSE (IF Indices(cluster_id) # {}
                      THEN <<results[best_of(Indices(cluster_id), results)]>>
                      ELSE << >>) \o Collect(cluster_id + 1)
            Sim(r) == r.similarity
        IN  IF Len(embeddings) < limit THEN Take(results, limit)
            ELSE SortDesc(Collect(0), Sim)

Similarities == {50, 70, 90}

\* what vector_search hands over: rows with an embedding, best similarity first
SampleRows(n) ==
    {rs \in [1..n -> [id : 1..n, similarity : Similarities, embedding : EmbedVecs]] :
        /\ \A i \in 1..n : rs[i].id = i
        /\ \A i \in 1..(n - 1) : rs[i].similarity >= rs[i + 1].similarity}

\* ------------------------------------------------- stateless functions
\* Each is called once per behaviour, with arguments drawn from bounded sets.
RECURSIVE Flatten(_)
Flatten(ss) == IF ss = << >> THEN << >> ELSE Head(ss) \o Flatten(Tail(ss))

\* episode lists for the clusterer: only the embedding column matters to it
BatchTables(n) == [1..n -> [embedding : {Null} \cup EmbedVecs]]

\* create_consolidation_batches on episodes 1..Len(tbl); labelOf and relabel
\* are what HDBSCAN returns at first and when a cluster is clustered again
CallBatches(tbl, labelOf, relabel) ==
    /\ call = Null
    /\ call' = [fn |-> "create_consolidation_batches",
                tbl |-> tbl,
                labelOf |-> labelOf,
                batches |-> create_consolidation_batches(
                                tbl, [i \in 1..Len(tbl) |-> i], labelOf, relabel)]
    /\ UNCHANGED <<storeVars, streamVars, ctxVars, appVars>>

BatchCalls ==
    \E n \in 0..MaxBatchEpisodes : \E tbl \in BatchTables(n) :
    \E labelOf \in [1..n -> Labels] :
    \E relabel \in (IF AllFit(cluster_episodes(tbl, [i \in 1..n |-> i], labelOf))
                    THEN {labelOf} ELSE [1..n -> Labels]) :
        CallBatches(tbl, labelOf, relabel)

CallShouldRemember(user_msg, assistant_msg, client, answer) ==
    /\ call = Null
    /\ call' = [fn |-> "should_remember", user_msg |-> user_msg, client |-> client,
                answer |-> answer,
                ret |-> should_remember(user_msg, assistant_msg, client, answer)]
    /\ UNCHANGED <<storeVars, streamVars, ctxVars, appVars>>

GateCalls ==
    \E user_msg \in GateUserMsgs : \E assistant_msg \in AssistantMsgs :
    \E client \in BOOLEAN : \E answer \in GeneratorAnswers :
        CallShouldRemember(user_msg, assistant_msg, client, answer)

CallCalculateImportance(user_msg, miyori_msg) ==
    /\ call = Null
    /\ call' = [fn |-> "calculate_importance", user_msg |-> user_msg,
                ret |-> calculate_importance(user_msg, miyori_msg)]
    /\ UNCHANGED <<storeVars, streamVars, ctxVars, appVars>>

ImportanceCalls ==
    \E user_msg \in ImportanceUserMsgs : \E miyori_msg \in AssistantMsgs :
        CallCalculateImportance(user_msg, miyori_msg)

\* get_decayed_score of one episode read at its capture and at two later times
CallDecay(base, t0, e1, e2) ==
    /\ call = Null
    /\ call' = [fn |-> "get_decayed_score", base |-> base, t0 |-> t0,
                t1 |-> t0 + e1, t2 |-> t0 + e2,
                at_capture |-> get_decayed_score(base, t0, t0),
                at_t1 |-> get_decayed_score(base, t0, t0 + e1),
                at_t2 |-> get_decayed_score(base, t0, t0 + e2)]
    /\ UNCHANGED <<storeVars, streamVars, ctxVars, appVars>>

DecayCalls ==
    \E base \in DecayBases : \E t0 \in DecayStarts :
    \E e1 \in DecayElapsed : \E e2 \in {e \in DecayElapsed : e >= e1} :
        CallDecay(base, t0, e1, e2)

CallDiversitySample(results, limit, cluster_labels) ==
    /\ call = Null
    /\ call' = [fn |-> "diversity_sample", results |-> results, limit |-> limit,
                cluster_labels |-> cluster_labels,
                ret |-> diversity_sample(results, limit, cluster_labels)]
    /\ UNCHANGED <<storeVars, streamVars, ctxVars, appVars>>

SampleCalls ==
    \E n \in 1..MaxSampleRows : \E results \in SampleRows(n) :
    \E limit \in 1..MaxSampleLimit :
    \E cluster_labels \in [1..n -> 0..((IF limit < n THEN limit ELSE n) - 1)] :
        CallDiversitySample(results, limit, cluster_labels)

PureNext ==
    \/ BatchCalls
    \/ SampleCalls
    \/ GateCalls
    \/ ImportanceCalls
    \/ DecayCalls

PureSpec == Init /\ [][PureNext]_vars

\* ------------------------------------------------------------ properties
ActiveCount(tbl) == Cardinality(ActiveIds(tbl))

\* a step in which MemoryBudget.enforce ran
SweepStep ==
    \/ Enforce
    \/ addCount + 1 >= check_frequency /\ \E imp \in Importances : AddEpisode(imp)

\* C1: whatever the query embedding and the limit, retrieve_relevant returns no
\* episode whose status is pending_embedding
C1_RetrievalExcludesPending ==
    \A qvec \in QueryVecs : \A k \in 1..MaxK :
        \A id \in Range(retrieve_relevant(rows, qvec, k, now)) :
            rows[id].status # "pending_embedding"

C1_Witness ==
    \E p \in Ids : \E a \in Ids :
        /\ rows[p].status = "pending_embedding"
        /\ a \in Range(retrieve_relevant(rows, <<3, 4>>, 1, now))

\* C2: a status changes only pending_embedding -> active, active -> archived or
\* active -> consolidated, and no row is deleted
C2_StatusLifecycle ==
    [][/\ Len(rows') >= Len(rows)
       /\ \A i \in 1..Len(rows) :
            rows'[i].status # rows[i].status =>
                <<rows[i].status, rows'[i].status>> \in
                    {<<"pending_embedding", "active">>, <<"active", "archived">>,
                     <<"active", "consolidated">>}]_vars

\* C3: a sweep over more than max_active active episodes leaves exactly max_active
C3_SweepLeavesMaxActive ==
    [][(SweepStep /\ ActiveCount(rows) > max_active)
          => ActiveCount(rows') = max_active]_vars

\* C4: after a sweep every episode still active ranks at least as high as every
\* episode the sweep archived
C4_KeptOutrankArchived ==
    [][SweepStep =>
          \A k \in ActiveIds(rows) \cap ActiveIds(rows') :
             \A a \in ActiveIds(rows) \ ActiveIds(rows') :
                budget_rank(rows[k], now) >= budget_rank(rows[a], now)]_vars

\* C5: a second sweep right after a sweep archives nothing
C5_SweepIdempotent ==
    [][SweepStep => ToArchive(rows', now') = {}]_vars

\* C6: an active, archived or consolidated episode has an embedding of the
\* configured dimension, written by the update that made it active
C6_EmbeddedOnceActive ==
    /\ [](\A i \in Ids :
            rows[i].status \in {"active", "archived", "consolidated"}
                => rows[i].embedding # Null /\ Len(rows[i].embedding) = EmbDim)
    /\ [][\A i \in 1..Len(rows) :
            (rows[i].status # "active" /\ rows'[i].status = "active")
                => rows[i].embedding = Null /\ rows'[i].embedding # Null]_vars

C6_Witness ==
    \E i \in Ids : \E j \in Ids :
        /\ rows[i].status = "archived" /\ rows[i].embedding # Null
        /\ rows[j].status = "consolidated" /\ rows[j].embedding # Null

\* C7: an episode whose embed call failed at the generator stays
\* pending_embedding and is in no retrieve_relevant result
C7_FailedEmbedStaysPending ==
    \A i \in embedFailed :
        /\ rows[i].status = "pending_embedding"
        /\ \A qvec \in QueryVecs : \A k \in 1..MaxK :
              i \notin Range(retrieve_relevant(rows, qvec, k, now))
\* C8: with a succeeding embedder and store and a fair loop, every added
\* episode becomes active, and embed is requested for it exactly once
C8_EveryEpisodeEmbeddedOnce ==
    /\ \A i \in 1..MaxEpisodes :
          []((i <= Len(rows) /\ rows[i].status = "pending_embedding")
                => <>(i <= Len(rows) /\ rows[i].status = "active"))
    /\ [](\A i \in Ids :
            /\ embedCalls[i] <= 1
            /\ rows[i].status # "pending_embedding" => embedCalls[i] = 1)

C8_Witness ==
    /\ Len(rows) = MaxEpisodes
    /\ created > 0
    /\ \A i \in Ids : rows[i].status # "pending_embedding" /\ embedCalls[i] = 1
\* C9: the two lists one get_cached_memories call returns come from the same
\* completed refresh, or the call returns none
C9_ReaderSeesOneRefresh ==
    (reader.pc = "done" /\ reader.result # Null)
        => reader.result.episodic = reader.result.semantic

\* C10: once a result for a later context is installed, the cache is never
\* overwritten by a result computed for an older context
C10_NewestContextWins ==
    [][(cache # Null /\ cache' # Null)
          => Last(cache'.context) >= Last(cache.context)]_vars

C10_Witness ==
    /\ cache # Null
    /\ cache.scheduled_for # << >>
    /\ Last(cache.scheduled_for) < Last(cache.context)
    /\ refreshSeq >= 2
\* C11: once add_turn_context calls have stopped and the stream is running,
\* the cache eventually holds, for good, results computed from recent_turns
C11_CacheEventuallyCurrent ==
    \A n \in 1..MaxTurns :
        <>[](running /\ turnCount = n)
            => <>[](cache # Null /\ cache.context = recent_turns)

C11_Witness ==
    /\ running
    /\ turnCount = MaxTurns
    /\ cache # Null
    /\ cache.context = recent_turns
    /\ refreshTasks = << >>

\* C12: a refresh run while the cache was built from the unchanged recent_turns
\* makes no call and leaves the cache, hit counter included, as it is
C12_RefreshSameContextNoOp ==
    [][(RefreshStep /\ cache # Null /\ cache.context = recent_turns)
          => (cache' = cache /\ refreshSeq' = refreshSeq)]_vars

\* C13: get_cached_memories never changes the cache and returns none only
\* when there is no cache
C13_ReaderIsPureSnapshot ==
    [][ReaderStep =>
          /\ cache' = cache
          /\ (reader'.pc = "done" /\ reader'.result = Null) => cache = Null]_vars

\* C14: recent_turns is the last min(n, 3) turns added, oldest first
C14_RecentTurnsWindow ==
    /\ Len(recent_turns) <= max_recent_turns
    /\ Len(recent_turns) = (IF turnCount < max_recent_turns THEN turnCount
                            ELSE max_recent_turns)
    /\ \A i \in 1..Len(recent_turns) :
          recent_turns[i] = turnCount - Len(recent_turns) + i

C14_Witness ==
    /\ turnCount > max_recent_turns
    /\ Len(recent_turns) = max_recent_turns
    /\ recent_turns[1] = turnCount - max_recent_turns + 1
\* C15: the built context is never longer, in approximate tokens, than the budget
C15_ContextWithinBudget ==
    ctx # Null => count_tokens_approx(ctx.built) <= ctx.token_budget

\* C16: the TOOL_RESULTS part of the context never exceeds min(400, budget/3)
\* approximate tokens
C16_ToolResultsWithinAllocation ==
    ctx # Null =>
        \A i \in 1..Len(ctx.sections) :
            (ctx.sections[i].label = "TOOL_RESULTS" /\ ctx.sections[i].status # "skipped")
                => count_tokens_approx(ctx.sections[i].text) <= tool_budget(ctx.token_budget)

\* C17: after a section was truncated or skipped for lack of budget, no later
\* section is in the output
C17_NothingAfterTruncation ==
    ctx # Null =>
        \A i \in 1..Len(ctx.sections) : \A j \in 1..Len(ctx.sections) :
            (i < j /\ ctx.sections[i].status \in {"truncated", "skipped"})
                => ctx.sections[j].status = "skipped"

\* C18: the text search_memory returned during a turn is the first section,
\* TOOL_RESULTS, of the context the coordinator builds for the next turn
C18_ToolTextInNextContext ==
    [][(CoordinatorRunStep /\ tool_output # Null)
          => /\ ctx'.tool_results = tool_output
             /\ ctx'.sections # << >>
             /\ ctx'.sections[1].label = "TOOL_RESULTS"]_vars

\* C19: tool results that fit their allocation come before every EPISODIC and
\* FACTS section
C19_ToolResultsFirst ==
    (/\ ctx # Null
     /\ ~NoContent(ctx.tool_results)
     /\ count_tokens_approx(format_section("TOOL_RESULTS", ctx.tool_results))
            <= tool_budget(ctx.token_budget))
        => /\ ctx.sections # << >>
           /\ ctx.sections[1].label = "TOOL_RESULTS"
           /\ ctx.sections[1].status = "full"
           /\ \A i \in 2..Len(ctx.sections) : ctx.sections[i].label # "TOOL_RESULTS"

C19_Witness ==
    /\ ctx # Null
    /\ Len(ctx.sections) = 3
    /\ ctx.sections[1].label = "TOOL_RESULTS"
    /\ ctx.sections[1].status = "full"
    /\ ctx.sections[2].status = "full"
    /\ ctx.sections[3].status # "skipped"
\* the ids in the derived_from lists of the facts the current run has stored
RECURSIVE DerivedIds(_)
DerivedIds(fs) == IF fs = << >> THEN << >> ELSE Head(fs).derived_from \o DerivedIds(Tail(fs))

CountIn(s, x) == Cardinality({j \in 1..Len(s) : s[j] = x})

\* C20: in a run without a failed batch, the ids in the derived_from lists of
\* the run's facts are, as a multiset, the ids the run marked consolidated
C20_DerivedFromMatchesMarked ==
    (cons.pc = "relational" /\ cons.failed = << >>)
        => \A id \in 1..MaxEpisodes :
              CountIn(DerivedIds(SubSeq(facts, cons.first_fact, Len(facts))), id)
                  = CountIn(cons.processed, id)
\* C21: the batches partition the episodes that have an embedding, and every
\* episode HDBSCAN labels as noise is a batch of its own
C21_BatchesPartitionInput ==
    (call # Null /\ call.fn = "create_consolidation_batches") =>
        LET valid == {e \in 1..Len(call.tbl) : call.tbl[e].embedding # Null}
        IN  /\ \A e \in valid : CountIn(Flatten(call.batches), e) = 1
            /\ \A e \in valid :
                  (Cardinality(valid) >= min_cluster_size /\ call.labelOf[e] = -1)
                      => \E j \in 1..Len(call.batches) : call.batches[j] = <<e>>

\* C22: no batch is larger than max_cluster_size
C22_BatchSizeBound ==
    (call # Null /\ call.fn = "create_consolidation_batches") =>
        \A j \in 1..Len(call.batches) : Len(call.batches[j]) <= max_cluster_size

C22_Witness ==
    /\ call # Null
    /\ call.fn = "create_consolidation_batches"
    /\ Len(call.tbl) > max_cluster_size
    /\ \A e \in 1..Len(call.tbl) : call.tbl[e].embedding # Null /\ call.labelOf[e] = 0
    /\ Len(call.batches) >= 2
\* C23: the episodes of a batch whose extraction failed are not marked
\* consolidated, and the other batches are processed
C23_FailedBatchStaysUnconsolidated ==
    cons.pc = "relational" =>
        /\ \A j \in 1..Len(cons.failed) : \A id \in Range(cons.failed[j]) :
              rows[id].status # "consolidated"
        /\ \A j \in 1..Len(cons.errored) : \A id \in Range(cons.errored[j]) :
              rows[id].status # "consolidated"

\* C24: after a run without a failed batch every episode the run loaded is
\* consolidated
C24_AllLoadedConsolidated ==
    (cons.pc = "relational" /\ cons.failed = << >> /\ cons.errored = << >>)
        => \A id \in Range(cons.loaded) : rows[id].status = "consolidated"

\* C25: a fact stored by consolidation has an embedding, confidence 0.7, status
\* stable and its derived_from, and the semantic vector search can return it
C25_FactsEmbeddedAndSearchable ==
    \A j \in 1..Len(facts) :
        /\ facts[j].confidence = 70
        /\ facts[j].status = "stable"
        /\ facts[j].derived_from # << >>
        /\ "embedding" \in DOMAIN facts[j]
        /\ facts[j].embedding # Null
        /\ \E qvec \in EmbedVecs :
              j \in Range(vector_search(facts, "semantic_memory", qvec, Len(facts),
                                        SearchFilters))
\* add_episode stamps each episode with datetime.now(): rows[i].timestamp is the
\* day, and within a day the later insert has the later timestamp
CapturedLater(i, j) ==
    \/ rows[i].timestamp > rows[j].timestamp
    \/ rows[i].timestamp = rows[j].timestamp /\ i > j

\* C26: retrieve_relevant(q, k) returns the k best-scoring of the 4k most
\* similar active episodes, best first, equal scores newest first
C26_RetrieveRelevantOrder ==
    \A qvec \in QueryVecs : \A k \in 1..MaxK :
        LET res == retrieve_relevant(rows, qvec, k, now)
            cands == search_episodes(rows, qvec, 4 * k, "active")
            Eligible == {i \in 1..Len(rows) :
                            rows[i].status = "active" /\ rows[i].embedding # Null}
            Sim(i) == Cosine(qvec, rows[i].embedding)
            Rel(i) == relevance_score(rows[i], Sim(i), now)
            Min(a, b) == IF a < b THEN a ELSE b
        IN  /\ Range(cands) \subseteq Eligible
            /\ Len(cands) = Min(4 * k, Cardinality(Eligible))
            /\ Cardinality(Range(cands)) = Len(cands)
            /\ \A c \in Range(cands) : \A e \in Eligible \ Range(cands) : Sim(c) >= Sim(e)
            /\ Len(res) = Min(k, Len(cands))
            /\ Range(res) \subseteq Range(cands)
            /\ Cardinality(Range(res)) = Len(res)
            /\ \A a, b \in 1..Len(res) : a < b =>
                  /\ Rel(res[a]) >= Rel(res[b])
                  /\ Rel(res[a]) = Rel(res[b]) => CapturedLater(res[a], res[b])
            /\ \A r \in Range(res) : \A c \in Range(cands) \ Range(res) :
                  /\ Rel(r) >= Rel(c)
                  /\ Rel(r) = Rel(c) => CapturedLater(r, c)
\* s contains kw when letter case is ignored
ContainsNoCase(s, kw) ==
    \E i \in 0..(Len(s) - Len(kw)) :
        \A j \in 1..Len(kw) : lower_char(s[i + j]) = lower_char(kw[j])

HasRetentionPhrase(s) == \E i \in 1..Len(keywords) : ContainsNoCase(s, keywords[i])

\* C27: a user text with a retention phrase, in any letter case, is remembered
\* without a generator call
C27_RetentionPhraseBypass ==
    (call # Null /\ call.fn = "should_remember" /\ HasRetentionPhrase(call.user_msg))
        => call.ret.result /\ call.ret.generator_calls = 0

C27_Witness ==
    /\ call # Null
    /\ call.fn = "should_remember"
    /\ call.client
    /\ call.answer = <<"N", "O">>
    /\ ContainsNoCase(call.user_msg, keywords[2])
    /\ ~contains(call.user_msg, keywords[2])
    /\ call.ret.result
    /\ call.ret.generator_calls = 0

\* C28: without a retention phrase, when the generator answers, the result is
\* true exactly when the trimmed, upper-cased answer begins with YES
C28_TrueIffAnswerBeginsWithYes ==
    (/\ call # Null
     /\ call.fn = "should_remember"
     /\ ~HasRetentionPhrase(call.user_msg)
     /\ call.client
     /\ call.answer # GeneratorError)
        => LET answer == upper(strip(call.answer))
           IN  call.ret.result <=> (Len(answer) >= Len(YES) /\ SubSeq(answer, 1, Len(YES)) = YES)

\* the score the three keyword classes add up to, in hundredths
ImportanceSum(s) ==
    50 + (IF ContainsNoCase(s, remember) THEN 30 ELSE 0)
       + (IF \E i \in 1..Len(personal_keywords) : ContainsNoCase(s, personal_keywords[i])
          THEN 20 ELSE 0)
       + (IF ContainsNoCase(s, i_will) \/ ContainsNoCase(s, promise) THEN 25 ELSE 0)

\* C29: calculate_importance is min(1.0, 0.5 + 0.30 + 0.20 + 0.25 over the
\* keyword classes the user text contains), so it lies in [0.5, 1.0]
C29_ImportanceFormula ==
    (call # Null /\ call.fn = "calculate_importance") =>
        /\ call.ret = (IF ImportanceSum(call.user_msg) < 100
                       THEN ImportanceSum(call.user_msg) ELSE 100)
        /\ call.ret >= 50
        /\ call.ret <= 100

C29_Witness ==
    /\ call # Null
    /\ call.fn = "calculate_importance"
    /\ ImportanceSum(call.user_msg) = 125
    /\ call.ret = 100

\* C30: the decayed score never grows with elapsed time and equals the base at
\* the capture time
C30_DecayMonotone ==
    (call # Null /\ call.fn = "get_decayed_score") =>
        /\ call.at_t1 >= call.at_t2
        /\ call.at_capture = call.base * (Scale \div 100)
        /\ call.at_capture >= call.at_t1

C30_Witness ==
    /\ call # Null
    /\ call.fn = "get_decayed_score"
    /\ call.base = 50
    /\ call.t1 - call.t0 = 50
    /\ call.t2 - call.t0 = 51
    /\ call.at_t1 > call.at_t2
    /\ call.at_t2 > 0
\* the columns of an episode that are written once, at insert
WrittenOnce(r) == <<r.importance, r.summary, r.full_text, r.timestamp>>

\* C37: no step changes the importance, summary, full_text or timestamp of an
\* existing episode; a sweep changes only status, the worker only embedding
\* and status
C37_EpisodeContentImmutable ==
    [][/\ Len(rows') >= Len(rows)
       /\ \A i \in 1..Len(rows) : WrittenOnce(rows'[i]) = WrittenOnce(rows[i])
       /\ SweepStep => \A i \in 1..Len(rows) : rows'[i].embedding = rows[i].embedding]_vars

C37_Witness ==
    /\ \E i \in 1..Len(rows) :
          /\ rows[i].status = "archived"
          /\ rows[i].embedding # Null
          /\ WrittenOnce(rows[i]) = <<80, i, i, 0>>
    /\ \E i \in 1..Len(rows) : rows[i].status = "consolidated"
    /\ now > 0

\* C38: at most one _process_queue worker is running
C38_AtMostOneWorker == Cardinality(inflight) <= 1
\* C36: diversity_sample returns the rows unchanged when there are at most k;
\* otherwise the most similar row of every non-empty cluster, and nothing else:
\* at most k rows of the input, best first, the globally best among them
C36_DiversitySample ==
    (call # Null /\ call.fn = "diversity_sample") =>
        LET rows_in == call.results
            ret == call.ret
            Group(g) == {i \in 1..Len(rows_in) : call.cluster_labels[i] = g}
            Groups == {g \in 0..(call.limit - 1) : Group(g) # {}}
        IN  IF Len(rows_in) <= call.limit THEN ret = rows_in
            ELSE /\ Len(ret) <= call.limit
                 /\ Len(ret) = Cardinality(Groups)
                 /\ Range(ret) \subseteq Range(rows_in)
                 /\ \A g \in Groups :
                       \E r \in Range(ret) :
                           /\ r.id \in Group(g)
                           /\ \A i \in Group(g) : rows_in[i].similarity <= r.similarity
                 /\ \A a \in 1..(Len(ret) - 1) : ret[a].similarity >= ret[a + 1].similarity
                 /\ \E r \in Range(ret) :
                       \A i \in 1..Len(rows_in) : rows_in[i].similarity <= r.similarity

C36_Witness ==
    /\ call # Null
    /\ call.fn = "diversity_sample"
    /\ Len(call.results) = 4
    /\ call.limit = 2
    /\ call.cluster_labels = <<1, 0, 0, 1>>
    /\ call.results[2].similarity > call.results[3].similarity
    /\ Len(call.ret) = 2
    /\ call.ret[1].id = 1
    /\ call.ret[2].id = 2
\* the suffix of msgs that starts at index i
SuffixFrom(msgs, i) == SubSeq(msgs, i, Len(msgs))

UserAt(msgs) == {i \in 1..Len(msgs) : msgs[i].role = "user"}

\* what the claim says a trimmed history is
TrimmedAsSpecified(before, after) ==
    LET target == MAX_HISTORY_TOKENS - TRIM_CHUNK_SIZE
        fitting == {i \in UserAt(before) : _calculate_tokens(SuffixFrom(before, i)) <= target}
        newest == CHOOSE i \in UserAt(before) : \A j \in UserAt(before) : j <= i
        start == IF fitting # {} THEN CHOOSE i \in fitting : \A j \in fitting : i <= j
                 ELSE newest
    IN  /\ after = SuffixFrom(before, start)
        /\ after # << >>
        /\ after[1].role = "user"
        /\ start <= newest

\* C34: an add_message that triggers trimming leaves the longest suffix that
\* starts with a user message and fits max_tokens - trim_chunk_size, or the last
\* user message and what follows it when none fits
C34_TrimKeepsUserStartedSuffix ==
    (/\ call # Null
     /\ call.fn = "add_message"
     /\ _calculate_tokens(call.before) > MAX_HISTORY_TOKENS
     /\ UserAt(call.before) # {})
        => /\ messages = call.ret
           /\ TrimmedAsSpecified(call.before, call.ret)

\* a trim that dropped the oldest turn and kept two later ones
C34_Witness ==
    /\ call # Null
    /\ call.fn = "add_message"
    /\ _calculate_tokens(call.before) > MAX_HISTORY_TOKENS
    /\ Cardinality(UserAt(call.before)) = 3
    /\ Cardinality(UserAt(call.ret)) = 2
    /\ _calculate_tokens(call.ret) <= MAX_HISTORY_TOKENS - TRIM_CHUNK_SIZE
\* the accepted requests that process_request has not yet picked up
InProcessing == {r \in 1..Len(srv.reqs) : srv.reqs[r].pc \in {"broadcast", "queued"}}

\* the accepted requests that have not completed
Uncompleted == InProcessing \cup {r \in 1..Len(srv.reqs) : srv.reqs[r].pc = "speaking"}

\* C40: the state is IDLE only when no accepted request is pending or in
\* progress, and at most one accepted request is in its PROCESSING phase
C40_IdleOnlyWhenNoRequest ==
    /\ srv.state = "idle" => Uncompleted = {}
    /\ Cardinality(InProcessing) <= 1

\* C35: whenever LLMCoordinator.run has returned, by whichever path, the
\* agentic state is inactive: is_active is false and iteration is 0
C35_ReturnedInactive ==
    co.pc = "returned" => (~agentic.is_active /\ agentic.iteration = 0)

\* a run that made a provider call in agentic mode and has returned
C35_Witness ==
    /\ co.pc = "returned"
    /\ co.agentic_calls >= 1
    /\ ~agentic.is_active
    /\ agentic.iteration = 0

\* C39: a run makes at most max_tool_turns provider calls in standard mode
\* and at most max_iterations provider calls in agentic mode, whatever the
\* provider answers and the tools return
C39_BoundedProviderCalls ==
    /\ co.calls <= max_tool_turns
    /\ co.agentic_calls <= max_iterations

\* the steps of the tool loop
CallStarts == co.pc = "check" /\ co'.pc = "calling"
ToolExecuted == co.pc = "tools" /\ co' # co
TurnStored ==
    /\ Len(log') = Len(log) + 1
    /\ log'[Len(log')] = <<co.turn, "store_turn">>

\* C33 as stated: once the interrupt signal is set, the tool loop starts no
\* further generator call, executes no further tool and does not store the turn
C33_InterruptStopsLoop ==
    [][interrupt => (~CallStarts /\ ~ToolExecuted /\ ~TurnStored)]_vars

\* C33: the tool loop polls the interrupt signal before each generator call
\* and starts no call when the signal is set; setting the signal changes
\* nothing of a call in progress
C33_NoCallWhenSignalSet ==
    [][/\ interrupt => ~CallStarts
       /\ (interrupt' /\ ~interrupt) => (co' = co /\ agentic' = agentic /\ log' = log)]_vars

\* the signal was set after the run made its first provider call; the tool
\* calls of that response have run and the loop is at its next poll
C33_Witness ==
    /\ interrupt
    /\ co.pc = "check"
    /\ co.turn_count = 1
    /\ GeneratorCalls(log) < MaxCalls

\* the place of an event in the sequence of a turn; the provider calls, the
\* streaming of their responses and the loop's own notices form one phase
Rank(e) ==
    IF e = "context_assembly" THEN 1
    ELSE IF e \in {"generator_call", "response_stream", "notice"} THEN 2
    ELSE IF e = "store_turn" THEN 3
    ELSE IF e = "gate" THEN 4
    ELSE IF e = "summarize" THEN 5
    ELSE IF e = "episode_write" THEN 6
    ELSE 7

\* the event of the same turn that precedes events[j], 0 when there is none
PrevOfTurn(events, j) ==
    LET before == {i \in 1..(j - 1) : events[i][1] = events[j][1]}
    IN  IF before = {} THEN 0 ELSE CHOOSE i \in before : \A k \in before : k <= i

\* events[j] is in its place after the earlier events of its turn
InPlace(events, j) ==
    LET i == PrevOfTurn(events, j)
        e == events[j][2]
    IN  /\ i # 0 => /\ Rank(events[i][2]) <= Rank(e)
                    /\ Rank(events[i][2]) = Rank(e) => Rank(e) = 2
        /\ e = "response_stream" => (i # 0 /\ events[i][2] = "generator_call")

\* C32: within one turn, context assembly comes first, each response is
\* streamed after the generator call that gave it, storage starts after the
\* last generator response, and gate, summarize, episode write and observe_turn
\* follow in this order
C32_TurnOrder ==
    [][log' # log => /\ Len(log') > Len(log)
                     /\ SubSeq(log', 1, Len(log)) = log
                     /\ \A j \in (Len(log) + 1)..Len(log') : InPlace(log', j)]_vars

\* a turn with two generator calls that went through every event
C32_Witness ==
    /\ Len(log) >= 10
    /\ [i \in 1..10 |-> log[i][2]] =
          <<"context_assembly", "generator_call", "response_stream",
            "generator_call", "response_stream", "store_turn", "gate",
            "summarize", "episode_write", "observe_turn">>
    /\ \A i \in 1..10 : log[i][1] = 1

\* the events of the memory subsystem
MemoryEvents == {"context_assembly", "gate", "summarize", "episode_write", "observe_turn"}

\* no turn has built a memory context, stored an episode or fed the prefetch stream
NoMemoryOperation ==
    /\ \A i \in 1..Len(log) : log[i][2] \notin MemoryEvents
    /\ \A t \in 1..Len(stores) : stores[t] = "none"

\* C31: a backend built without credentials, or whose memory initialisation
\* failed, has memory_enabled = false, and with memory_enabled = false no turn
\* performs a memory operation
C31_DegradedMemoryDisabled ==
    backend # Null =>
        /\ (~backend.api_key \/ backend.init_failed) => ~backend.memory_enabled
        /\ ~backend.memory_enabled => NoMemoryOperation
====
